---- MODULE Spec2Model ----
(***************************************************************************)
(* Infoblox WAPI client (src/infoblox/infoblox.py).                        *)
(*                                                                         *)
(* One client object runs one public operation at a time.  An operation   *)
(* is a blocking handler: it issues an HTTP request through Session,      *)
(* waits for the answer, interprets it and either issues a second request *)
(* or ends by returning or raising.  A handler is modelled as an operator *)
(* handler(args, rs) of the transport results rs it has received so far;  *)
(* it yields the requests issued so far and "pending" (blocked in the     *)
(* last request), "return" or the exception class it raises.              *)
(*                                                                         *)
(* Strings that the code takes apart (addresses, filter strings, URLs)    *)
(* are sequences of one-character strings; opaque strings are TLA+        *)
(* strings.  A JSON object is a record with one field per key and a       *)
(* has-flag (or the Absent value) for keys that may be missing.           *)
(***************************************************************************)
EXTENDS Integers, Sequences, FiniteSets, TLC

VARIABLES
    call,       \* the operation being run (or last run) and its arguments
    rs,         \* transport results received so far by the running handler
    log,        \* HTTP requests issued by the running (or last) operation
    outcome,    \* "idle", "pending", "return" or the exception class raised
    result,     \* the value returned ("None" value otherwise)
    store,      \* alias list kept by the appliance for host StoredHost
    last,       \* the call completed before the current one
    session,    \* what Session.request did for the requests of the call
    config,     \* the configuration held by the client and its session
    caller_params, \* a query_params mapping that the caller keeps
    peer,       \* a second client: its call, answers, requests and outcome
    served      \* the requests the appliance has served to the two clients

vars ==
    <<call, rs, log, outcome, result, store, last, session, config,
      caller_params, peer, served>>

(***************************************************************************)
(* Bounds of the model.                                                    *)
(***************************************************************************)
MaxAliases == 3
MaxFilterLen == 4

(***************************************************************************)
(* Exception classes (lines 26-51) and the ones raised by libraries.       *)
(***************************************************************************)
InfobloxNotFoundException == "InfobloxNotFoundException"
InfobloxNotUpdatedException == "InfobloxNotUpdatedException"
InfobloxNoIPavailableException == "InfobloxNoIPavailableException"
InfobloxNoNetworkAvailableException == "InfobloxNoNetworkAvailableException"
InfobloxGeneralException == "InfobloxGeneralException"
InfobloxBadInputParameter == "InfobloxBadInputParameter"
HTTPError == "HTTPError"
ConnectionError == "ConnectionError"
AttributeError == "AttributeError"
KeyError == "KeyError"
TypeError == "TypeError"

Exceptions ==
    {InfobloxNotFoundException, InfobloxNotUpdatedException,
     InfobloxNoIPavailableException, InfobloxNoNetworkAvailableException,
     InfobloxGeneralException, InfobloxBadInputParameter,
     HTTPError, ConnectionError, AttributeError, KeyError, TypeError}

(***************************************************************************)
(* Values: identities, references, JSON bodies, requests.                  *)
(***************************************************************************)
Identities == {"n1", "n2"}
AliasNames == {"a1", "a2"}
AttrNames == {"x1", "x2"}
AttrValues == {"v1", "v2"}
Absent == "<absent>"

\* An object reference "<type>/<oid>:<name>/<view>"; "" is EmptyRef.
Ref(type, name) == [type |-> type, name |-> name]
EmptyRef == Ref("", "")

\* A payload or a returned value: a tag, a list part and a mapping part.
Value(kind, seq, map) == [kind |-> kind, seq |-> seq, map |-> map]
None == Value("None", <<>>, <<>>)

\* One element of a search result: '_ref' and the fields asked for.
NoRecord ==
    [ref |-> EmptyRef, name |-> Absent, network |-> Absent, text |-> Absent,
     hasAliases |-> FALSE, aliases |-> <<>>, extattrs |-> <<>>,
     hasNames |-> FALSE, names |-> <<>>,
     hasIpv4addrs |-> FALSE, ipv4addrs |-> <<>>]

\* JSON bodies: unparseable, an array of records, or an object.
Invalid ==
    [kind |-> "invalid", items |-> <<>>, text |-> Absent, code |-> Absent,
     ips |-> <<>>, networks |-> <<>>, ipv4addrs |-> <<>>]
List(items) == [Invalid EXCEPT !.kind = "list", !.items = items]
Object(text, code) ==
    [Invalid EXCEPT !.kind = "obj", !.text = text, !.code = code]
\* A JSON string: the reference of a created object.  It has no 'text' in
\* it (the resources are record:txt, record:cname, range, network, ...).
String == [Invalid EXCEPT !.kind = "str"]

\* What the network does with one request.
Failure == [fail |-> TRUE, status_code |-> 0, body |-> Invalid]
Response(status, body) ==
    [fail |-> FALSE, status_code |-> status, body |-> body]

\* An HTTP request as issued by the client: a search on a resource (ident is
\* the value of its exact-match filter, query its raw query string), or a
\* request on the object named by ref.
Request(method, resource, ident, ref, data) ==
    [method |-> method, resource |-> resource, ident |-> ident, ref |-> ref,
     data |-> data, query |-> <<>>]

Range(s) == {s[i] : i \in DOMAIN s}

(***************************************************************************)
(* Session.request and the response methods the handlers use.              *)
(***************************************************************************)
\* Response.raise_for_status raises HTTPError for 4xx and 5xx.
raise_for_status(r) == r.status_code >= 400 /\ r.status_code < 600

\* Session.request: "ok" or the exception it re-raises.
request(tr) ==
    IF tr.fail THEN ConnectionError
    ELSE IF raise_for_status(tr) THEN HTTPError
    ELSE "ok"

\* A variant of Session.request that calls requests.Session.request a
\* second time when the first call fails.  Property C15 tells it from
\* Session_request.
Session_request_retry(req, tr) ==
    [sent |-> IF tr.fail \/ raise_for_status(tr) THEN <<req, req>>
              ELSE <<req>>,
     logged |-> <<>>,
     out |-> IF tr.fail THEN ConnectionError
             ELSE IF raise_for_status(tr) THEN HTTPError
             ELSE "ok"]

\* A variant of Session.request that re-raises without logging.  Property
\* C16 tells it from Session_request.
Session_request_silent(req, tr) ==
    [sent |-> <<req>>,
     logged |-> <<>>,
     out |-> IF tr.fail THEN ConnectionError
             ELSE IF raise_for_status(tr) THEN HTTPError
             ELSE "ok"]

\* Session.request (lines 56-80) for request req when the network gives tr:
\* the calls of requests.Session.request it makes, the failures it logs
\* (status and content are None when there was no response) and what its
\* caller gets, "ok" for the response or the exception re-raised.
Session_request(req, tr) ==
    [sent |-> <<req>>,
     logged |->
        IF request(tr) = "ok" THEN <<>>
        ELSE <<[url |-> [resource |-> req.resource, ident |-> req.ident,
                         ref |-> req.ref, query |-> req.query],
                method |-> req.method,
                status |-> IF tr.fail THEN None
                           ELSE Value("int", <<tr.status_code>>, <<>>),
                content |-> IF tr.fail THEN None
                            ELSE Value("bytes", <<tr.body>>, <<>>)]>>,
     out |-> request(tr)]

\* What Session.request has done for the requests reqs of a call, of which
\* rsp have been answered: for the request in flight one call of
\* requests.Session.request has been made.
Session(reqs, rsp) ==
    [sent |-> [i \in 1..Len(reqs) |->
                  IF i <= Len(rsp) THEN Session_request(reqs[i], rsp[i]).sent
                  ELSE <<reqs[i]>>],
     logged |-> [i \in 1..Len(rsp) |->
                    Session_request(reqs[i], rsp[i]).logged],
     outs |-> [i \in 1..Len(rsp) |-> Session_request(reqs[i], rsp[i]).out]]

\* A variant of r.json() that never raises.  Property C12 tells it from
\* json_raises.
json_never_raises(r) == FALSE

\* r.json() raises ValueError on an unparseable body.
json_raises(r) == r.body.kind = "invalid"

\* len(r_json): elements of an array, keys of an object
len(r_json) ==
    IF r_json.kind = "list" THEN Len(r_json.items)
    ELSE Cardinality({k \in {"text", "code"} : r_json[k] # Absent})
         + Cardinality({k \in {"ips", "networks", "ipv4addrs"} :
                            r_json[k] # <<>>})

\* 'text' in r_json: a key test on an object, an element test on an array
\* (an array of records never holds the string 'text').
has_text(r_json) == r_json.kind = "obj" /\ r_json.text # Absent

\* re.match("<type>\/[^:]+:([^\/]+)\/", ref) is not None
re_match(type, ref) == ref.type = type
\* .group(1) of the match
group1(ref) == ref.name

\* list.remove(x): the list without the first occurrence of x
RECURSIVE remove(_, _)
remove(l, x) ==
    IF l = <<>> THEN <<>>
    ELSE IF Head(l) = x THEN Tail(l)
    ELSE <<Head(l)>> \o remove(Tail(l), x)

(***************************************************************************)
(* Handler results.                                                        *)
(***************************************************************************)
Pending(reqs) == [log |-> reqs, out |-> "pending", res |-> None]
Raise(reqs, e) == [log |-> reqs, out |-> e, res |-> None]
Return(reqs, v) == [log |-> reqs, out |-> "return", res |-> v]

\* The tail shared by every handler's status test:
\*     if 'text' in r_json: raise InfobloxGeneralException(r_json['text'])
\*     else: r.raise_for_status()
\* after which the function ends, returning None.
text_or_status(reqs, r_json, r) ==
    IF has_text(r_json) THEN Raise(reqs, InfobloxGeneralException)
    ELSE IF raise_for_status(r) THEN Raise(reqs, HTTPError)
    ELSE Return(reqs, None)

\* Lookup by exact name followed by DELETE of the validated reference:
\* the body shared by delete_host_record, delete_txt_record and
\* delete_cname_record, which differ in the resource only.
delete_validated(resource, fqdn, rsp) ==
    LET lookup == Request("GET", resource, fqdn, EmptyRef, None)
    IN  IF Len(rsp) = 0 THEN Pending(<<lookup>>)
        ELSE LET r == rsp[1]
                 r_json == r.body
             IN
        IF request(r) # "ok" THEN Raise(<<lookup>>, request(r))
        ELSE IF json_raises(r) THEN Raise(<<lookup>>, InfobloxGeneralException)
        ELSE IF r.status_code = 200 THEN
            IF len(r_json) > 0 THEN
                LET host_ref == r_json.items[1].ref
                    del == Request("DELETE", "", "", host_ref, None)
                IN
                IF host_ref = EmptyRef
                THEN Raise(<<lookup>>, InfobloxGeneralException)
                ELSE IF ~re_match(resource, host_ref)
                THEN Raise(<<lookup>>, AttributeError)
                ELSE IF group1(host_ref) = fqdn THEN
                    IF Len(rsp) = 1 THEN Pending(<<lookup, del>>)
                    ELSE LET r2 == rsp[2] IN
                    IF request(r2) # "ok"
                    THEN Raise(<<lookup, del>>, request(r2))
                    ELSE IF r2.status_code = 200
                    THEN Return(<<lookup, del>>, None)
                    ELSE text_or_status(<<lookup, del>>, r_json, r2)
                ELSE Raise(<<lookup>>, InfobloxGeneralException)
            ELSE Raise(<<lookup>>, InfobloxNotFoundException)
        ELSE text_or_status(<<lookup>>, r_json, r)

\* Infoblox.delete_host_record (lines 299-337)
delete_host_record(fqdn, rsp) == delete_validated("record:host", fqdn, rsp)

\* Infoblox.delete_txt_record (lines 339-377)
delete_txt_record(fqdn, rsp) == delete_validated("record:txt", fqdn, rsp)

\* Infoblox.delete_cname_record (lines 500-536)
delete_cname_record(fqdn, rsp) == delete_validated("record:cname", fqdn, rsp)

\* Lookup followed by DELETE of any non-empty reference: the body shared by
\* delete_dhcp_range, delete_network and delete_networkcontainer.
delete_unvalidated(resource, ident, rsp) ==
    LET lookup == Request("GET", resource, ident, EmptyRef, None)
    IN  IF Len(rsp) = 0 THEN Pending(<<lookup>>)
        ELSE LET r == rsp[1]
                 r_json == r.body
             IN
        IF request(r) # "ok" THEN Raise(<<lookup>>, request(r))
        ELSE IF json_raises(r) THEN Raise(<<lookup>>, InfobloxGeneralException)
        ELSE IF r.status_code = 200 THEN
            IF len(r_json) > 0 THEN
                LET network_ref == r_json.items[1].ref
                    del == Request("DELETE", "", "", network_ref, None)
                IN
                IF network_ref # EmptyRef THEN
                    IF Len(rsp) = 1 THEN Pending(<<lookup, del>>)
                    ELSE LET r2 == rsp[2] IN
                    IF request(r2) # "ok"
                    THEN Raise(<<lookup, del>>, request(r2))
                    ELSE IF r2.status_code = 200
                    THEN Return(<<lookup, del>>, None)
                    ELSE text_or_status(<<lookup, del>>, r_json, r2)
                ELSE Raise(<<lookup>>, InfobloxGeneralException)
            ELSE Raise(<<lookup>>, InfobloxNotFoundException)
        ELSE text_or_status(<<lookup>>, r_json, r)

\* Infoblox.delete_dhcp_range (lines 597-636); the filter is the pair of
\* addresses, written start-end
delete_dhcp_range(range, rsp) == delete_unvalidated("range", range, rsp)

\* Infoblox.delete_network (lines 1124-1160)
delete_network(network, rsp) == delete_unvalidated("network", network, rsp)

\* Infoblox.delete_networkcontainer (lines 1183-1219)
delete_networkcontainer(networkcontainer, rsp) ==
    delete_unvalidated("networkcontainer", networkcontainer, rsp)

\* A variant of add_host_alias that PUTs the new alias alone, not the list
\* it has read.  Property C22 tells it from add_host_alias.
add_host_alias_single(host_fqdn, alias_fqdn, rsp) ==
    LET lookup == Request("GET", "record:host", host_fqdn, EmptyRef, None)
    IN  IF Len(rsp) = 0 THEN Pending(<<lookup>>)
        ELSE LET r == rsp[1]
                 r_json == r.body
             IN
        IF request(r) # "ok" THEN Raise(<<lookup>>, request(r))
        ELSE IF json_raises(r) THEN Raise(<<lookup>>, InfobloxGeneralException)
        ELSE IF r.status_code = 200 THEN
            IF len(r_json) > 0 THEN
                LET host_ref == r_json.items[1].ref
                    aliases == <<alias_fqdn>>
                    put == Request("PUT", "", "", host_ref,
                                   Value("aliases", aliases, <<>>))
                IN
                IF host_ref = EmptyRef
                THEN Raise(<<lookup>>, InfobloxGeneralException)
                ELSE IF ~re_match("record:host", host_ref)
                THEN Raise(<<lookup>>, AttributeError)
                ELSE IF group1(host_ref) = host_fqdn THEN
                    IF Len(rsp) = 1 THEN Pending(<<lookup, put>>)
                    ELSE LET r2 == rsp[2] IN
                    IF request(r2) # "ok"
                    THEN Raise(<<lookup, put>>, request(r2))
                    ELSE IF r2.status_code = 200
                    THEN Return(<<lookup, put>>, None)
                    ELSE text_or_status(<<lookup, put>>, r_json, r2)
                ELSE Raise(<<lookup>>, InfobloxGeneralException)
            ELSE Raise(<<lookup>>, InfobloxNotFoundException)
        ELSE text_or_status(<<lookup>>, r_json, r)

\* Infoblox.add_host_alias (lines 379-425)
add_host_alias(host_fqdn, alias_fqdn, rsp) ==
    LET lookup == Request("GET", "record:host", host_fqdn, EmptyRef, None)
    IN  IF Len(rsp) = 0 THEN Pending(<<lookup>>)
        ELSE LET r == rsp[1]
                 r_json == r.body
             IN
        IF request(r) # "ok" THEN Raise(<<lookup>>, request(r))
        ELSE IF json_raises(r) THEN Raise(<<lookup>>, InfobloxGeneralException)
        ELSE IF r.status_code = 200 THEN
            IF len(r_json) > 0 THEN
                LET host_ref == r_json.items[1].ref
                    aliases ==
                        IF r_json.items[1].hasAliases
                        THEN Append(r_json.items[1].aliases, alias_fqdn)
                        ELSE <<alias_fqdn>>
                    put == Request("PUT", "", "", host_ref,
                                   Value("aliases", aliases, <<>>))
                IN
                IF host_ref = EmptyRef
                THEN Raise(<<lookup>>, InfobloxGeneralException)
                ELSE IF ~re_match("record:host", host_ref)
                THEN Raise(<<lookup>>, AttributeError)
                ELSE IF group1(host_ref) = host_fqdn THEN
                    IF Len(rsp) = 1 THEN Pending(<<lookup, put>>)
                    ELSE LET r2 == rsp[2] IN
                    IF request(r2) # "ok"
                    THEN Raise(<<lookup, put>>, request(r2))
                    ELSE IF r2.status_code = 200
                    THEN Return(<<lookup, put>>, None)
                    ELSE text_or_status(<<lookup, put>>, r_json, r2)
                ELSE Raise(<<lookup>>, InfobloxGeneralException)
            ELSE Raise(<<lookup>>, InfobloxNotFoundException)
        ELSE text_or_status(<<lookup>>, r_json, r)

\* Infoblox.delete_host_alias (lines 427-476).  aliases.remove raises
\* ValueError when the alias is not in the list, and the handler's
\* "except ValueError" turns that into InfobloxGeneralException.
delete_host_alias(host_fqdn, alias_fqdn, rsp) ==
    LET lookup == Request("GET", "record:host", host_fqdn, EmptyRef, None)
    IN  IF Len(rsp) = 0 THEN Pending(<<lookup>>)
        ELSE LET r == rsp[1]
                 r_json == r.body
             IN
        IF request(r) # "ok" THEN Raise(<<lookup>>, request(r))
        ELSE IF json_raises(r) THEN Raise(<<lookup>>, InfobloxGeneralException)
        ELSE IF r.status_code = 200 THEN
            IF len(r_json) > 0 THEN
                LET host_ref == r_json.items[1].ref
                    aliases == r_json.items[1].aliases
                    put == Request("PUT", "", "", host_ref,
                                   Value("aliases",
                                         remove(aliases, alias_fqdn), <<>>))
                IN
                IF host_ref = EmptyRef
                THEN Raise(<<lookup>>, InfobloxGeneralException)
                ELSE IF ~re_match("record:host", host_ref)
                THEN Raise(<<lookup>>, AttributeError)
                ELSE IF group1(host_ref) = host_fqdn THEN
                    IF r_json.items[1].hasAliases THEN
                        IF alias_fqdn \notin Range(aliases)
                        THEN Raise(<<lookup>>, InfobloxGeneralException)
                        ELSE IF Len(rsp) = 1 THEN Pending(<<lookup, put>>)
                        ELSE LET r2 == rsp[2] IN
                        IF request(r2) # "ok"
                        THEN Raise(<<lookup, put>>, request(r2))
                        ELSE IF r2.status_code = 200
                        THEN Return(<<lookup, put>>, None)
                        ELSE text_or_status(<<lookup, put>>, r_json, r2)
                    ELSE Raise(<<lookup>>, InfobloxNotFoundException)
                ELSE Raise(<<lookup>>, InfobloxGeneralException)
            ELSE Raise(<<lookup>>, InfobloxNotFoundException)
        ELSE text_or_status(<<lookup>>, r_json, r)

\* Infoblox.update_cname_record (lines 538-572).  The name travels in the
\* body of the GET; the reference found is not compared with it.
update_cname_record(canonical, name, rsp) ==
    LET lookup == Request("GET", "record:cname", name, EmptyRef, None)
    IN  IF Len(rsp) = 0 THEN Pending(<<lookup>>)
        ELSE LET r == rsp[1]
                 r_json == r.body
             IN
        IF request(r) # "ok" THEN Raise(<<lookup>>, request(r))
        ELSE IF json_raises(r) THEN Raise(<<lookup>>, InfobloxGeneralException)
        ELSE IF r.status_code = 200 /\ len(r_json) = 1 THEN
            LET cname_ref == r_json.items[1].ref
                put == Request("PUT", "", "", cname_ref,
                               Value("canonical", <<canonical>>, <<>>))
            IN
            IF Len(rsp) = 1 THEN Pending(<<lookup, put>>)
            ELSE LET r2 == rsp[2] IN
            IF request(r2) # "ok" THEN Raise(<<lookup, put>>, request(r2))
            ELSE IF r2.status_code = 200 \/ r2.status_code = 201
            THEN Return(<<lookup, put>>, None)
            ELSE IF raise_for_status(r2) THEN Raise(<<lookup, put>>, HTTPError)
            ELSE Return(<<lookup, put>>, None)
        ELSE IF len(r_json) = 0
        THEN Raise(<<lookup>>, InfobloxNotFoundException)
        ELSE text_or_status(<<lookup>>, r_json, r)

\* dict.iteritems exists in Python 2 only
has_iteritems(py) == py = "py2"

\* Infoblox.update_network_extattrs (lines 1009-1055); attributes is a
\* mapping of names to values.  extattrs[attr_name]['value'] = v raises
\* KeyError for a name the network does not have yet.
update_network_extattrs(network, attributes, py, rsp) ==
    LET lookup == Request("GET", "network", network, EmptyRef, None)
    IN  IF Len(rsp) = 0 THEN Pending(<<lookup>>)
        ELSE LET r == rsp[1]
                 r_json == r.body
             IN
        IF request(r) # "ok" THEN Raise(<<lookup>>, request(r))
        ELSE IF json_raises(r) THEN Raise(<<lookup>>, InfobloxGeneralException)
        ELSE IF r.status_code = 200 THEN
            IF len(r_json) > 0 THEN
                LET network_ref == r_json.items[1].ref
                    extattrs == r_json.items[1].extattrs
                    updated ==
                        [a \in DOMAIN extattrs |->
                            IF a \in DOMAIN attributes
                            THEN [value |-> attributes[a]]
                            ELSE extattrs[a]]
                    put == Request("PUT", "", "", network_ref,
                                   Value("extattrs", <<>>, updated))
                IN
                IF network_ref # EmptyRef THEN
                    IF ~has_iteritems(py) THEN Raise(<<lookup>>, AttributeError)
                    ELSE IF ~(DOMAIN attributes \subseteq DOMAIN extattrs)
                    THEN Raise(<<lookup>>, KeyError)
                    ELSE IF Len(rsp) = 1 THEN Pending(<<lookup, put>>)
                    ELSE LET r2 == rsp[2] IN
                    IF request(r2) # "ok"
                    THEN Raise(<<lookup, put>>, request(r2))
                    ELSE IF r2.status_code = 200
                    THEN Return(<<lookup, put>>, None)
                    ELSE text_or_status(<<lookup, put>>, r_json, r2)
                ELSE Raise(<<lookup>>, InfobloxGeneralException)
            ELSE Raise(<<lookup>>, InfobloxNotFoundException)
        ELSE text_or_status(<<lookup>>, r_json, r)

\* Infoblox.delete_network_extattrs (lines 1057-1101); attributes is a list
\* of names.
delete_network_extattrs(network, attributes, rsp) ==
    LET lookup == Request("GET", "network", network, EmptyRef, None)
    IN  IF Len(rsp) = 0 THEN Pending(<<lookup>>)
        ELSE LET r == rsp[1]
                 r_json == r.body
             IN
        IF request(r) # "ok" THEN Raise(<<lookup>>, request(r))
        ELSE IF json_raises(r) THEN Raise(<<lookup>>, InfobloxGeneralException)
        ELSE IF r.status_code = 200 THEN
            IF len(r_json) > 0 THEN
                LET network_ref == r_json.items[1].ref
                    extattrs == r_json.items[1].extattrs
                    kept ==
                        [a \in DOMAIN extattrs \ Range(attributes) |->
                            extattrs[a]]
                    put == Request("PUT", "", "", network_ref,
                                   Value("extattrs", <<>>, kept))
                IN
                IF network_ref # EmptyRef THEN
                    IF Len(rsp) = 1 THEN Pending(<<lookup, put>>)
                    ELSE LET r2 == rsp[2] IN
                    IF request(r2) # "ok"
                    THEN Raise(<<lookup, put>>, request(r2))
                    ELSE IF r2.status_code = 200
                    THEN Return(<<lookup, put>>, None)
                    ELSE text_or_status(<<lookup, put>>, r_json, r2)
                ELSE Raise(<<lookup>>, InfobloxGeneralException)
            ELSE Raise(<<lookup>>, InfobloxNotFoundException)
        ELSE text_or_status(<<lookup>>, r_json, r)

(***************************************************************************)
(* Util (lines 1441-1613).  pre holds the requests the calling operation   *)
(* has issued before; the answer to this call's request is rsp[Len(pre)+1].*)
(***************************************************************************)
\* A variant of Util.get that never raises NotFound: an empty result is
\* returned as None whatever the flag.  Property C1 tells it from get.
get_lenient(uri, ident, notFoundFail, pre, rsp) ==
    LET reqs == Append(pre, Request("GET", uri, ident, EmptyRef, None))
    IN  IF Len(rsp) < Len(reqs) THEN Pending(reqs)
        ELSE LET r == rsp[Len(reqs)]
                 r_json == r.body
             IN
        IF request(r) # "ok" THEN Raise(reqs, request(r))
        ELSE IF json_raises(r) THEN Raise(reqs, InfobloxGeneralException)
        ELSE IF r.status_code = 200 THEN
            IF len(r_json) > 0
            THEN Return(reqs, Value("list", r_json.items, <<>>))
            ELSE Return(reqs, None)
        ELSE text_or_status(reqs, r_json, r)

\* Util.get (lines 1471-1523)
get(uri, ident, notFoundFail, pre, rsp) ==
    LET reqs == Append(pre, Request("GET", uri, ident, EmptyRef, None))
    IN  IF Len(rsp) < Len(reqs) THEN Pending(reqs)
        ELSE LET r == rsp[Len(reqs)]
                 r_json == r.body
             IN
        IF request(r) # "ok" THEN Raise(reqs, request(r))
        ELSE IF json_raises(r) THEN Raise(reqs, InfobloxGeneralException)
        ELSE IF r.status_code = 200 THEN
            IF len(r_json) > 0
            THEN Return(reqs, Value("list", r_json.items, <<>>))
            ELSE IF notFoundFail
            THEN Raise(reqs, InfobloxNotFoundException)
            ELSE Return(reqs, None)
        ELSE text_or_status(reqs, r_json, r)

\* Util.delete_by_ref (lines 1582-1613): everything after the raise
\* statements of the HTTPError handler is unreachable, so a DELETE that
\* raises nothing ends the function with None.
delete_by_ref(ref, notFoundFail, pre, rsp) ==
    LET reqs == Append(pre, Request("DELETE", "", "", ref, None))
    IN  IF Len(rsp) < Len(reqs) THEN Pending(reqs)
        ELSE LET r == rsp[Len(reqs)] IN
        IF request(r) = HTTPError THEN
            IF notFoundFail THEN Raise(reqs, InfobloxNotFoundException)
            ELSE Raise(reqs, HTTPError)
        ELSE IF request(r) # "ok" THEN Raise(reqs, request(r))
        ELSE Return(reqs, None)

\* Infoblox.get_host (lines 638-655); r_json[0] on None raises TypeError
get_host(fqdn, notFoundFail, rsp) ==
    LET r_json == get("record:host", fqdn, notFoundFail, <<>>, rsp)
    IN  IF r_json.out # "return" THEN r_json
        ELSE IF r_json.res = None /\ notFoundFail = FALSE
        THEN Return(r_json.log, None)
        ELSE IF r_json.res = None THEN Raise(r_json.log, TypeError)
        ELSE Return(r_json.log, Value("record", <<r_json.res.seq[1]>>, <<>>))

\* Infoblox.get_fixed_address (lines 1349-1366); the filter is the pair of
\* ipv4addr and mac
get_fixed_address(fixed, not_found_fail, pre, rsp) ==
    get("fixedaddress", fixed, not_found_fail, pre, rsp)

\* A variant of delete_fixed_address that sends the DELETE also when the
\* lookup gave None.  Property C17 tells it from delete_fixed_address.
delete_fixed_address_blind(fixed, not_found_fail, rsp) ==
    LET ref == get_fixed_address(fixed, not_found_fail, <<>>, rsp)
    IN  IF ref.out # "return" THEN ref
        ELSE IF ref.res = None
        THEN delete_by_ref(EmptyRef, not_found_fail, ref.log, rsp)
        ELSE delete_by_ref(ref.res.seq[1].ref, not_found_fail, ref.log, rsp)

\* Infoblox.delete_fixed_address (lines 1368-1380); ref[0] on None raises
\* TypeError.
delete_fixed_address(fixed, not_found_fail, rsp) ==
    LET ref == get_fixed_address(fixed, not_found_fail, <<>>, rsp)
    IN  IF ref.out # "return" THEN ref
        ELSE IF ref.res = None THEN Raise(ref.log, TypeError)
        ELSE delete_by_ref(ref.res.seq[1].ref, not_found_fail, ref.log, rsp)

\* A variant of Util.post that takes status 200 only as success.  Property
\* C8 tells it from post.
post_200(uri, ref, payload, confirm, pre, rsp) ==
    LET reqs == Append(pre, Request("POST", uri, "", ref, payload))
    IN  IF ~confirm THEN Return(pre, None)
        ELSE IF Len(rsp) < Len(reqs) THEN Pending(reqs)
        ELSE LET r == rsp[Len(reqs)]
                 r_json == r.body
             IN
        IF request(r) # "ok" THEN Raise(reqs, request(r))
        ELSE IF json_raises(r) THEN Raise(reqs, InfobloxGeneralException)
        ELSE IF r.status_code = 200
        THEN Return(reqs, Value("json", <<r_json>>, <<>>))
        ELSE text_or_status(reqs, r_json, r)

\* Util.post (lines 1548-1580); the value returned is the parsed body
post(uri, ref, payload, confirm, pre, rsp) ==
    LET reqs == Append(pre, Request("POST", uri, "", ref, payload))
    IN  IF ~confirm THEN Return(pre, None)
        ELSE IF Len(rsp) < Len(reqs) THEN Pending(reqs)
        ELSE LET r == rsp[Len(reqs)]
                 r_json == r.body
             IN
        IF request(r) # "ok" THEN Raise(reqs, request(r))
        ELSE IF json_raises(r) THEN Raise(reqs, InfobloxGeneralException)
        ELSE IF r.status_code = 200 \/ r.status_code = 201
        THEN Return(reqs, Value("json", <<r_json>>, <<>>))
        ELSE text_or_status(reqs, r_json, r)

(***************************************************************************)
(* Infoblox.create_host_record (lines 210-245).  An address is a sequence  *)
(* of characters.                                                          *)
(***************************************************************************)
Digits == {"0", "1", "2", "3", "4", "5", "6", "7", "8", "9"}

\* The address with every maximal run [0-9]+ replaced by "N".
RECURSIVE runs(_)
runs(s) ==
    IF s = <<>> THEN <<>>
    ELSE IF Head(s) \in Digits
    THEN IF Len(s) > 1 /\ s[2] \in Digits THEN runs(Tail(s))
         ELSE <<"N">> \o runs(Tail(s))
    ELSE <<Head(s)>> \o runs(Tail(s))

\* re.match("^" + pattern + "$", s) for a pattern of [0-9]+ runs and literal
\* separators: "$" matches at the end of the string and also just before a
\* newline that ends the string.
matches(pattern, s) ==
    \/ runs(s) = pattern
    \/ runs(s) = pattern \o <<"\n">>

CIDR == <<"N", ".", "N", ".", "N", ".", "N", "/", "N">>
RANGE ==
    <<"N", ".", "N", ".", "N", ".", "N", "-", "N", ".", "N", ".", "N", ".", "N">>
STATIC == <<"N", ".", "N", ".", "N", ".", "N">>

iba_dns_view == "dnsview"
iba_network_view == "netview"

\* Infoblox.__init__ and _setup_session (lines 129-165): the attributes of
\* the client and the settings of its session.
Construct(ipaddr, user, password, wapi_version, dns_view, network_view, verify_ssl) ==
    [iba_host |-> ipaddr,
     iba_user |-> user,
     iba_password |-> password,
     iba_wapi_version |-> wapi_version,
     iba_dns_view |-> dns_view,
     iba_network_view |-> network_view,
     iba_verify_ssl |-> verify_ssl,
     base_url |-> <<"https://", ipaddr, "/wapi/v", wapi_version>>,
     auth |-> <<user, password>>,
     verify |-> verify_ssl]

\* The client of the model.
Constructed ==
    Construct("host", "user", "password", "2.5", iba_dns_view,
              iba_network_view, FALSE)

create_host_record(address, fqdn, custom, rsp) ==
    LET ipv4addr ==
            IF matches(CIDR, address) \/ matches(RANGE, address)
            THEN <<"func:nextavailableip:">> \o address
            ELSE address
        payload ==
            IF custom THEN Value("custom", <<>>, <<>>)
            ELSE Value("host",
                       <<[ipv4addr |-> ipv4addr,
                          configure_for_dhcp |-> FALSE]>>,
                       [name |-> fqdn, view |-> iba_dns_view])
        r_json == post("record:host", EmptyRef, payload, TRUE, <<>>, rsp)
    IN  IF ~(matches(CIDR, address) \/ matches(RANGE, address)
             \/ matches(STATIC, address))
        THEN Raise(<<>>, InfobloxBadInputParameter)
        ELSE IF r_json.out # "return" THEN r_json
        ELSE IF r_json.res = None
        THEN Raise(r_json.log, InfobloxGeneralException)
        ELSE IF r_json.res.seq[1].kind = "list"
        THEN Raise(r_json.log, TypeError)
        ELSE IF r_json.res.seq[1].ipv4addrs = <<>>
        THEN Raise(r_json.log, KeyError)
        ELSE Return(r_json.log,
                    Value("str", r_json.res.seq[1].ipv4addrs[1].ipv4addr,
                          <<>>))

(***************************************************************************)
(* Function calls.                                                         *)
(***************************************************************************)
\* The body shared by get_next_available_ip and get_next_available_network:
\* they differ in the resource, the function and its arguments, the key of
\* the answer and the exception raised for code Client.Ibap.Data.
next_available(resource, ident, function, args, exhausted, rsp) ==
    LET lookup == Request("GET", resource, ident, EmptyRef, None)
    IN  IF Len(rsp) = 0 THEN Pending(<<lookup>>)
        ELSE LET r == rsp[1]
                 r_json == r.body
             IN
        IF request(r) # "ok" THEN Raise(<<lookup>>, request(r))
        ELSE IF json_raises(r) THEN Raise(<<lookup>>, InfobloxGeneralException)
        ELSE IF r.status_code = 200 THEN
            IF len(r_json) > 0 THEN
                LET net_ref == r_json.items[1].ref
                    fn == Request("POST", function, "", net_ref,
                                  Value("args", <<>>, args))
                IN
                IF Len(rsp) = 1 THEN Pending(<<lookup, fn>>)
                ELSE LET r2 == rsp[2]
                         r2_json == r2.body
                         found == IF function = "next_available_ip"
                                  THEN r2_json.ips ELSE r2_json.networks
                     IN
                IF request(r2) # "ok" THEN Raise(<<lookup, fn>>, request(r2))
                ELSE IF json_raises(r2)
                THEN Raise(<<lookup, fn>>, InfobloxGeneralException)
                ELSE IF r2.status_code = 200 THEN
                    IF r2_json.kind = "list" THEN Raise(<<lookup, fn>>, TypeError)
                    ELSE IF found = <<>> THEN Raise(<<lookup, fn>>, KeyError)
                    ELSE Return(<<lookup, fn>>, Value("str", found[1], <<>>))
                ELSE IF has_text(r2_json) THEN
                    IF r2_json.code = "Client.Ibap.Data"
                    THEN Raise(<<lookup, fn>>, exhausted)
                    ELSE Raise(<<lookup, fn>>, InfobloxGeneralException)
                ELSE IF raise_for_status(r2) THEN Raise(<<lookup, fn>>, HTTPError)
                ELSE Return(<<lookup, fn>>, None)
            ELSE Raise(<<lookup>>, InfobloxNotFoundException)
        ELSE text_or_status(<<lookup>>, r_json, r)

\* Infoblox.get_next_available_ip (lines 167-208)
get_next_available_ip(network, rsp) ==
    next_available("network", network, "next_available_ip",
                   [num |-> 1], InfobloxNoIPavailableException, rsp)

\* Infoblox.get_next_available_network (lines 1221-1265)
get_next_available_network(networkcontainer, cidr, rsp) ==
    next_available("networkcontainer", networkcontainer,
                   "next_available_network", [cidr |-> cidr, num |-> 1],
                   InfobloxNoNetworkAvailableException, rsp)

(***************************************************************************)
(* Extensible attributes: reads and searches.                              *)
(***************************************************************************)
\* The loops of get_host_extattrs and get_network_extattrs over the
\* requested names: the names in order, NotFound at the first one missing.
missing(attributes, extattrs) ==
    \E i \in DOMAIN attributes : attributes[i] \notin DOMAIN extattrs

\* A variant of the unwrapping loop that leaves attribute x2 out.  Property
\* C9 tells it from unwrap.
unwrap_partial(names, extattrs) ==
    [a \in names \ {"x2"} |-> extattrs[a].value]

\* extattrs[attribute] = r_json[0]['extattrs'][attribute]['value'] for every
\* name of names
unwrap(names, extattrs) == [a \in names |-> extattrs[a].value]

\* Infoblox.get_host_extattrs (lines 793-830)
get_host_extattrs(fqdn, attributes, rsp) ==
    LET lookup == Request("GET", "record:host", fqdn, EmptyRef, None)
    IN  IF Len(rsp) = 0 THEN Pending(<<lookup>>)
        ELSE LET r == rsp[1]
                 r_json == r.body
             IN
        IF request(r) # "ok" THEN Raise(<<lookup>>, request(r))
        ELSE IF json_raises(r) THEN Raise(<<lookup>>, InfobloxGeneralException)
        ELSE IF r.status_code = 200 THEN
            IF len(r_json) > 0 THEN
                LET extattrs == r_json.items[1].extattrs IN
                IF attributes # <<>> THEN
                    IF missing(attributes, extattrs)
                    THEN Raise(<<lookup>>, InfobloxNotFoundException)
                    ELSE Return(<<lookup>>,
                                Value("dict", <<>>,
                                      unwrap(Range(attributes), extattrs)))
                ELSE Return(<<lookup>>,
                            Value("dict", <<>>,
                                  unwrap(DOMAIN extattrs, extattrs)))
            ELSE Raise(<<lookup>>, InfobloxNotFoundException)
        ELSE IF has_text(r_json)
        THEN Raise(<<lookup>>, InfobloxNotFoundException)
        ELSE IF raise_for_status(r) THEN Raise(<<lookup>>, HTTPError)
        ELSE Return(<<lookup>>, None)

\* Infoblox.get_network_extattrs (lines 970-1007): "return extattrs" sits in
\* the branch for no requested names, so the branch for requested names
\* that are all present ends the function with None.
get_network_extattrs(network, attributes, rsp) ==
    LET lookup == Request("GET", "network", network, EmptyRef, None)
    IN  IF Len(rsp) = 0 THEN Pending(<<lookup>>)
        ELSE LET r == rsp[1]
                 r_json == r.body
             IN
        IF request(r) # "ok" THEN Raise(<<lookup>>, request(r))
        ELSE IF json_raises(r) THEN Raise(<<lookup>>, InfobloxGeneralException)
        ELSE IF r.status_code = 200 THEN
            IF len(r_json) > 0 THEN
                LET extattrs == r_json.items[1].extattrs IN
                IF attributes # <<>> THEN
                    IF missing(attributes, extattrs)
                    THEN Raise(<<lookup>>, InfobloxNotFoundException)
                    ELSE Return(<<lookup>>, None)
                ELSE Return(<<lookup>>,
                            Value("dict", <<>>,
                                  unwrap(DOMAIN extattrs, extattrs)))
            ELSE Raise(<<lookup>>, InfobloxNotFoundException)
        ELSE IF has_text(r_json)
        THEN Raise(<<lookup>>, InfobloxNotFoundException)
        ELSE IF raise_for_status(r) THEN Raise(<<lookup>>, HTTPError)
        ELSE Return(<<lookup>>, None)

\* str.split(sep) for a one-character separator
RECURSIVE split(_, _)
split(s, sep) ==
    IF \A i \in DOMAIN s : s[i] # sep THEN <<s>>
    ELSE LET i == CHOOSE k \in DOMAIN s :
                      s[k] = sep /\ \A j \in 1..(k - 1) : s[j] # sep
         IN  <<SubSeq(s, 1, i - 1)>> \o split(SubSeq(s, i + 1, Len(s)), sep)

\* sep.join(parts)
RECURSIVE join(_, _)
join(sep, parts) ==
    IF parts = <<>> THEN <<>>
    ELSE IF Len(parts) = 1 THEN parts[1]
    ELSE parts[1] \o sep \o join(sep, Tail(parts))

\* A variant of the query string that joins the clauses with "&" alone.
\* Property C10 tells it from extattrs_query.
extattrs_query_plain(attributes, view_param, view) ==
    <<"*">> \o join(<<"&">>, split(attributes, ","))
            \o <<"&", view_param, view>>

\* The query string of get_network_by_extattrs (lines 908-911) and of
\* get_host_by_extattrs (lines 946-948), after the '?'
extattrs_query(attributes, view_param, view) ==
    <<"*">> \o join(<<"&", "*">>, split(attributes, ","))
            \o <<"&", view_param, view>>

\* the values of key in the records that have it
RECURSIVE collect(_, _)
collect(items, key) ==
    IF items = <<>> THEN <<>>
    ELSE IF Head(items)[key] # Absent
    THEN <<Head(items)[key]>> \o collect(Tail(items), key)
    ELSE collect(Tail(items), key)

\* Infoblox.get_network_by_extattrs (lines 894-931)
get_network_by_extattrs(attributes, rsp) ==
    LET lookup == [Request("GET", "network", "", EmptyRef, None) EXCEPT
                    !.query = extattrs_query(attributes, "network_view=",
                                             iba_network_view)]
    IN  IF Len(rsp) = 0 THEN Pending(<<lookup>>)
        ELSE LET r == rsp[1]
                 r_json == r.body
             IN
        IF request(r) # "ok" THEN Raise(<<lookup>>, request(r))
        ELSE IF json_raises(r) THEN Raise(<<lookup>>, InfobloxGeneralException)
        ELSE IF r.status_code = 200 THEN
            IF len(r_json) > 0
            THEN Return(<<lookup>>,
                        Value("list", collect(r_json.items, "network"), <<>>))
            ELSE Raise(<<lookup>>, InfobloxNotFoundException)
        ELSE text_or_status(<<lookup>>, r_json, r)

\* Infoblox.get_host_by_extattrs (lines 933-968)
get_host_by_extattrs(attributes, rsp) ==
    LET lookup == [Request("GET", "record:host", "", EmptyRef, None) EXCEPT
                    !.query = extattrs_query(attributes, "view=",
                                             iba_dns_view)]
    IN  IF Len(rsp) = 0 THEN Pending(<<lookup>>)
        ELSE LET r == rsp[1]
                 r_json == r.body
             IN
        IF request(r) # "ok" THEN Raise(<<lookup>>, request(r))
        ELSE IF json_raises(r) THEN Raise(<<lookup>>, InfobloxGeneralException)
        ELSE IF r.status_code = 200 THEN
            IF len(r_json) > 0
            THEN Return(<<lookup>>,
                        Value("list", collect(r_json.items, "name"), <<>>))
            ELSE Raise(<<lookup>>, InfobloxNotFoundException)
        ELSE IF has_text(r_json)
        THEN Raise(<<lookup>>, InfobloxNotFoundException)
        ELSE IF raise_for_status(r) THEN Raise(<<lookup>>, HTTPError)
        ELSE Return(<<lookup>>, None)

(***************************************************************************)
(* Reads.                                                                  *)
(***************************************************************************)
\* Lookup by exact name returning the first record once its reference is
\* validated: the body shared by get_cname_record and get_a_record_by_fqdn.
get_validated(resource, fqdn, rsp) ==
    LET lookup == Request("GET", resource, fqdn, EmptyRef, None)
    IN  IF Len(rsp) = 0 THEN Pending(<<lookup>>)
        ELSE LET r == rsp[1]
                 r_json == r.body
             IN
        IF request(r) # "ok" THEN Raise(<<lookup>>, request(r))
        ELSE IF json_raises(r) THEN Raise(<<lookup>>, InfobloxGeneralException)
        ELSE IF r.status_code = 200 THEN
            IF len(r_json) > 0 THEN
                LET cname_ref == r_json.items[1].ref IN
                IF cname_ref = EmptyRef
                THEN Raise(<<lookup>>, InfobloxGeneralException)
                ELSE IF ~re_match(resource, cname_ref)
                THEN Raise(<<lookup>>, AttributeError)
                ELSE IF group1(cname_ref) = fqdn
                THEN Return(<<lookup>>,
                            Value("record", <<r_json.items[1]>>, <<>>))
                ELSE Raise(<<lookup>>, InfobloxGeneralException)
            ELSE Raise(<<lookup>>, InfobloxNotFoundException)
        ELSE text_or_status(<<lookup>>, r_json, r)

\* Infoblox.get_cname_record (lines 247-274)
get_cname_record(fqdn, rsp) == get_validated("record:cname", fqdn, rsp)

\* Infoblox.get_a_record_by_fqdn (lines 1284-1311)
get_a_record_by_fqdn(fqdn, rsp) == get_validated("record:a", fqdn, rsp)

\* The search shared by get_host_by_regexp, get_txt_by_regexp,
\* get_ip_by_host, get_network and get_network_by_ip, up to the point where
\* a non-empty result is in hand: they differ in the resource, the filter
\* and the exception raised for an error body with 'text'.
search(resource, ident, text_error, rsp) ==
    LET lookup == Request("GET", resource, ident, EmptyRef, None)
    IN  IF Len(rsp) = 0 THEN Pending(<<lookup>>)
        ELSE LET r == rsp[1]
                 r_json == r.body
             IN
        IF request(r) # "ok" THEN Raise(<<lookup>>, request(r))
        ELSE IF json_raises(r) THEN Raise(<<lookup>>, InfobloxGeneralException)
        ELSE IF r.status_code = 200 THEN
            IF len(r_json) > 0
            THEN Return(<<lookup>>, Value("list", r_json.items, <<>>))
            ELSE Raise(<<lookup>>, InfobloxNotFoundException)
        ELSE IF has_text(r_json) THEN Raise(<<lookup>>, text_error)
        ELSE IF raise_for_status(r) THEN Raise(<<lookup>>, HTTPError)
        ELSE Return(<<lookup>>, None)

\* Infoblox.get_host_by_regexp (lines 676-702); host['name'] raises KeyError
\* for a record without a name
get_host_by_regexp(fqdn, rsp) ==
    LET found == search("record:host", fqdn, InfobloxGeneralException, rsp)
    IN  IF found.out # "return" \/ found.res = None THEN found
        ELSE IF \E i \in DOMAIN found.res.seq : found.res.seq[i].name = Absent
        THEN Raise(found.log, KeyError)
        ELSE Return(found.log,
                    Value("list",
                          [i \in DOMAIN found.res.seq |-> found.res.seq[i].name],
                          <<>>))

\* Infoblox.get_txt_by_regexp (lines 704-732): a mapping of name to text,
\* a later record of the same name replacing an earlier one
get_txt_by_regexp(fqdn, rsp) ==
    LET found == search("record:txt", fqdn, InfobloxGeneralException, rsp)
    IN  IF found.out # "return" \/ found.res = None THEN found
        ELSE LET hosts == found.res.seq
                 names == {hosts[i].name : i \in DOMAIN hosts}
                 lastOf(n) == CHOOSE i \in DOMAIN hosts :
                                 /\ hosts[i].name = n
                                 /\ \A j \in DOMAIN hosts :
                                        hosts[j].name = n => j <= i
             IN
        IF \E i \in DOMAIN hosts :
               hosts[i].name = Absent \/ hosts[i].text = Absent
        THEN Raise(found.log, KeyError)
        ELSE Return(found.log,
                    Value("dict", <<>>,
                          [n \in names |-> hosts[lastOf(n)].text]))

\* Infoblox.get_ip_by_host (lines 762-791)
get_ip_by_host(fqdn, rsp) ==
    LET found == search("record:host", fqdn, InfobloxGeneralException, rsp)
    IN  IF found.out # "return" \/ found.res = None THEN found
        ELSE LET host == found.res.seq[1] IN
        IF ~host.hasIpv4addrs THEN Raise(found.log, KeyError)
        ELSE IF Len(host.ipv4addrs) > 0
        THEN Return(found.log,
                    Value("list",
                          [i \in DOMAIN host.ipv4addrs |->
                              host.ipv4addrs[i].ipv4addr],
                          <<>>))
        ELSE Raise(found.log, InfobloxNotFoundException)

\* Infoblox.get_network (lines 832-863)
get_network(network, rsp) ==
    LET found == search("network", network, InfobloxNotFoundException, rsp)
    IN  IF found.out # "return" \/ found.res = None THEN found
        ELSE Return(found.log, Value("record", <<found.res.seq[1]>>, <<>>))

\* Infoblox.get_network_by_ip (lines 865-892)
get_network_by_ip(ip_v4, rsp) ==
    LET found == search("ipv4address", ip_v4, InfobloxNotFoundException, rsp)
    IN  IF found.out # "return" \/ found.res = None THEN found
        ELSE IF found.res.seq[1].network # Absent
        THEN Return(found.log, Value("str", found.res.seq[1].network, <<>>))
        ELSE Raise(found.log, InfobloxNotFoundException)

\* Infoblox.get_host_by_alias (lines 657-674): as get_host, the filter being
\* the alias
get_host_by_alias(fqdn, notFoundFail, rsp) ==
    LET r_json == get("record:host", fqdn, notFoundFail, <<>>, rsp)
    IN  IF r_json.out # "return" THEN r_json
        ELSE IF r_json.res = None /\ notFoundFail = FALSE
        THEN Return(r_json.log, None)
        ELSE IF r_json.res = None THEN Raise(r_json.log, TypeError)
        ELSE Return(r_json.log, Value("record", <<r_json.res.seq[1]>>, <<>>))

\* Infoblox.get_ipv4address_by_ip (lines 744-760)
get_ipv4address_by_ip(ip_v4, notFoundFail, rsp) ==
    LET r_json == get("ipv4address", ip_v4, notFoundFail, <<>>, rsp)
    IN  IF r_json.out # "return" THEN r_json
        ELSE IF r_json.res = None /\ notFoundFail = FALSE
        THEN Return(r_json.log, None)
        ELSE IF r_json.res = None THEN Raise(r_json.log, TypeError)
        ELSE Return(r_json.log, Value("record", <<r_json.res.seq[1]>>, <<>>))

\* Infoblox.get_host_by_ip (lines 734-742); r_json['names'] raises KeyError
\* for a record without names
get_host_by_ip(ip_v4, notFoundFail, rsp) ==
    LET r_json == get_ipv4address_by_ip(ip_v4, notFoundFail, rsp)
    IN  IF r_json.out # "return" THEN r_json
        ELSE IF r_json.res = None /\ notFoundFail = FALSE
        THEN Return(r_json.log, None)
        ELSE IF r_json.res = None THEN Raise(r_json.log, TypeError)
        ELSE IF ~r_json.res.seq[1].hasNames THEN Raise(r_json.log, KeyError)
        ELSE Return(r_json.log, Value("list", r_json.res.seq[1].names, <<>>))

\* Infoblox.get_a_record_by_ip (lines 1267-1282)
get_a_record_by_ip(ipaddr, not_found_fail, rsp) ==
    get("record:a", ipaddr, not_found_fail, <<>>, rsp)

\* Infoblox.get_dhcp_range (lines 1316-1330)
get_dhcp_range(network, not_found_fail, rsp) ==
    get("range", network, not_found_fail, <<>>, rsp)

\* Infoblox.get_grid (lines 1382-1398); name may be None, written ""
get_grid(name, not_found_fail, pre, rsp) ==
    get("grid", name, not_found_fail, pre, rsp)

\* Infoblox.get_pending_changes (lines 1414-1422)
get_pending_changes(notFoundFail, rsp) ==
    get("grid:servicerestart:request:changedobject", "", notFoundFail,
        <<>>, rsp)

\* A query_params mapping of get_lease: the key 'address' (Absent when the
\* mapping is {}) and the key '_return_fields' that Util.get may add.
Params(address, has_return_fields, return_fields) ==
    [address |-> address, has_return_fields |-> has_return_fields,
     return_fields |-> return_fields]
NoParams == Params(Absent, FALSE, <<>>)

\* Util.get, lines 1485-1489: the fields asked for are written into
\* query_params itself, a list joined with commas.
set_return_fields(query_params, fields) ==
    IF fields.kind = "None" THEN query_params
    ELSE IF fields.kind = "str"
    THEN [query_params EXCEPT !.has_return_fields = TRUE,
                              !.return_fields = fields.seq]
    ELSE [query_params EXCEPT !.has_return_fields = TRUE,
                              !.return_fields = join(<<",">>, fields.seq)]

\* The query string that Session.get(url, params=query_params) sends
urlencode(query_params) ==
    join(<<"&">>,
         (IF query_params.address = Absent THEN <<>>
          ELSE <<(<<"address=", query_params.address>>)>>)
         \o (IF ~query_params.has_return_fields THEN <<>>
             ELSE <<(<<"_return_fields=">> \o query_params.return_fields)>>))

\* Util.get (lines 1471-1523) with its fields parameter: get, with the
\* mapping sent as the parameters of the request.  query_params=None is
\* NoParams, the new mapping of line 1484.
get_fields(uri, query_params, fields, notFoundFail, pre, rsp) ==
    LET params == set_return_fields(query_params, fields)
        r_json == get(uri, params.address, notFoundFail, pre, rsp)
    IN  [r_json EXCEPT !.log[Len(pre) + 1].query = urlencode(params)]

\* Infoblox.get_lease (lines 1424-1438)
get_lease(query_params, fields, not_found_fail, rsp) ==
    get_fields("lease", query_params, fields, not_found_fail, <<>>, rsp)

(***************************************************************************)
(* Creates and writes.                                                     *)
(***************************************************************************)
\* POST of a new object: the body shared by create_txt_record,
\* create_cname_record, create_dhcp_range, create_network and
\* create_networkcontainer, which differ in the resource and the payload.
create(resource, payload, rsp) ==
    LET req == Request("POST", resource, "", EmptyRef, payload)
    IN  IF Len(rsp) = 0 THEN Pending(<<req>>)
        ELSE LET r == rsp[1]
                 r_json == r.body
             IN
        IF request(r) # "ok" THEN Raise(<<req>>, request(r))
        ELSE IF json_raises(r) THEN Raise(<<req>>, InfobloxGeneralException)
        ELSE IF r.status_code = 200 \/ r.status_code = 201
        THEN Return(<<req>>, None)
        ELSE text_or_status(<<req>>, r_json, r)

\* Infoblox.create_txt_record (lines 276-297)
create_txt_record(text, fqdn, rsp) ==
    create("record:txt",
           Value("txt", <<>>,
                 [text |-> text, name |-> fqdn, view |-> iba_dns_view]),
           rsp)

\* Infoblox.create_cname_record (lines 478-498)
create_cname_record(canonical, name, rsp) ==
    create("record:cname",
           Value("cname", <<>>,
                 [canonical |-> canonical, name |-> name,
                  view |-> iba_dns_view]),
           rsp)

\* Infoblox.create_dhcp_range (lines 574-595)
create_dhcp_range(start_ip_v4, end_ip_v4, rsp) ==
    create("range",
           Value("range", <<>>,
                 [start_addr |-> start_ip_v4, end_addr |-> end_ip_v4]),
           rsp)

\* Infoblox.create_network (lines 1103-1122)
create_network(network, rsp) ==
    create("network",
           Value("network", <<>>,
                 [network |-> network, network_view |-> iba_network_view]),
           rsp)

\* Infoblox.create_networkcontainer (lines 1162-1181)
create_networkcontainer(networkcontainer, rsp) ==
    create("networkcontainer",
           Value("networkcontainer", <<>>,
                 [network |-> networkcontainer,
                  network_view |-> iba_network_view]),
           rsp)

\* Infoblox.create_fixed_address (lines 1332-1347)
create_fixed_address(ipv4addr, mac, confirm, rsp) ==
    post("fixedaddress", EmptyRef,
         Value("fixedaddress", <<>>, [mac |-> mac, ipv4addr |-> ipv4addr]),
         confirm, <<>>, rsp)

\* Infoblox.restart_grid_services (lines 1400-1412); ref[0] on None raises
\* TypeError
restart_grid_services(payload, name, rsp) ==
    LET ref == get_grid(name, TRUE, <<>>, rsp)
    IN  IF ref.out # "return" THEN ref
        ELSE IF ref.res = None THEN Raise(ref.log, TypeError)
        ELSE post("restartservices", ref.res.seq[1].ref, payload, TRUE,
                  ref.log, rsp)

\* A variant of Util.put that sends the PUT whatever confirm is.  Property
\* C28 tells it from put.
put_unconfirmed(record, payload, confirm, pre, rsp) ==
    LET reqs == Append(pre, Request("PUT", "", "", record.ref, payload))
    IN  IF Len(rsp) < Len(reqs) THEN Pending(reqs)
        ELSE LET r == rsp[Len(reqs)] IN
        IF request(r) # "ok" THEN Raise(reqs, request(r))
        ELSE IF r.status_code = 200 THEN Return(reqs, None)
        ELSE Raise(reqs, InfobloxNotUpdatedException)

\* Util.put (lines 1525-1546): the body of the answer is not read
put(record, payload, confirm, pre, rsp) ==
    LET reqs == Append(pre, Request("PUT", "", "", record.ref, payload))
    IN  IF ~confirm THEN Return(pre, None)
        ELSE IF Len(rsp) < Len(reqs) THEN Pending(reqs)
        ELSE LET r == rsp[Len(reqs)] IN
        IF request(r) # "ok" THEN Raise(reqs, request(r))
        ELSE IF r.status_code = 200 THEN Return(reqs, None)
        ELSE Raise(reqs, InfobloxNotUpdatedException)

\* Infoblox.update_record (lines 1313-1314)
update_record(record, fields, confirm, rsp) ==
    put(record, fields, confirm, <<>>, rsp)

(***************************************************************************)
(* The call in progress.                                                   *)
(***************************************************************************)
\* op and its arguments: ident the name, network or other identity looked
\* up, second a second name, attrs a list of attribute names, map a mapping
\* of attribute names to values, addr an address or filter string, custom
\* whether a payload is supplied, flag the not-found flag (FALSE asks for
\* None in place of NotFound), confirm the dry-run flag, cidr a prefix
\* length, py the interpreter.
NoCall == [op |-> "none", ident |-> "", second |-> "", attrs |-> <<>>,
           map |-> <<>>, addr |-> <<>>, custom |-> FALSE, flag |-> TRUE,
           confirm |-> TRUE, cidr |-> 0, py |-> "py2",
           query_params |-> NoParams, fields |-> None, passes |-> FALSE]

\* The operations whose signature has a not-found flag (notFoundFail or
\* not_found_fail).
has_flag(op) ==
    op \in {"get_host", "get_host_by_alias", "get_host_by_ip",
            "get_ipv4address_by_ip", "get_a_record_by_ip", "get_dhcp_range",
            "get_fixed_address", "delete_fixed_address", "get_grid",
            "get_pending_changes", "get_lease"}

\* The body of the operation called.
Dispatch(c, rsp) ==
    CASE c.op = "delete_host_record" -> delete_host_record(c.ident, rsp)
      [] c.op = "delete_txt_record" -> delete_txt_record(c.ident, rsp)
      [] c.op = "delete_cname_record" -> delete_cname_record(c.ident, rsp)
      [] c.op = "delete_dhcp_range" -> delete_dhcp_range(c.ident, rsp)
      [] c.op = "delete_network" -> delete_network(c.ident, rsp)
      [] c.op = "delete_networkcontainer" ->
            delete_networkcontainer(c.ident, rsp)
      [] c.op = "add_host_alias" -> add_host_alias(c.ident, c.second, rsp)
      [] c.op = "delete_host_alias" ->
            delete_host_alias(c.ident, c.second, rsp)
      [] c.op = "update_cname_record" ->
            update_cname_record(c.second, c.ident, rsp)
      [] c.op = "update_network_extattrs" ->
            update_network_extattrs(c.ident, c.map, c.py, rsp)
      [] c.op = "delete_network_extattrs" ->
            delete_network_extattrs(c.ident, c.attrs, rsp)
      [] c.op = "delete_fixed_address" ->
            delete_fixed_address(c.ident, c.flag, rsp)
      [] c.op = "create_host_record" ->
            create_host_record(c.addr, c.ident, c.custom, rsp)
      [] c.op = "get_next_available_ip" -> get_next_available_ip(c.ident, rsp)
      [] c.op = "get_next_available_network" ->
            get_next_available_network(c.ident, c.cidr, rsp)
      [] c.op = "get_host_extattrs" ->
            get_host_extattrs(c.ident, c.attrs, rsp)
      [] c.op = "get_network_extattrs" ->
            get_network_extattrs(c.ident, c.attrs, rsp)
      [] c.op = "get_network_by_extattrs" ->
            get_network_by_extattrs(c.addr, rsp)
      [] c.op = "get_host_by_extattrs" -> get_host_by_extattrs(c.addr, rsp)
      [] c.op = "get_host" -> get_host(c.ident, c.flag, rsp)
      [] c.op = "get_cname_record" -> get_cname_record(c.ident, rsp)
      [] c.op = "get_a_record_by_fqdn" -> get_a_record_by_fqdn(c.ident, rsp)
      [] c.op = "get_host_by_regexp" -> get_host_by_regexp(c.ident, rsp)
      [] c.op = "get_txt_by_regexp" -> get_txt_by_regexp(c.ident, rsp)
      [] c.op = "get_ip_by_host" -> get_ip_by_host(c.ident, rsp)
      [] c.op = "get_network" -> get_network(c.ident, rsp)
      [] c.op = "get_network_by_ip" -> get_network_by_ip(c.ident, rsp)
      [] c.op = "get_host_by_alias" ->
            get_host_by_alias(c.ident, c.flag, rsp)
      [] c.op = "get_ipv4address_by_ip" ->
            get_ipv4address_by_ip(c.ident, c.flag, rsp)
      [] c.op = "get_host_by_ip" -> get_host_by_ip(c.ident, c.flag, rsp)
      [] c.op = "get_a_record_by_ip" ->
            get_a_record_by_ip(c.ident, c.flag, rsp)
      [] c.op = "get_dhcp_range" -> get_dhcp_range(c.ident, c.flag, rsp)
      [] c.op = "get_fixed_address" ->
            get_fixed_address(c.ident, c.flag, <<>>, rsp)
      [] c.op = "get_grid" -> get_grid(c.ident, c.flag, <<>>, rsp)
      [] c.op = "get_pending_changes" -> get_pending_changes(c.flag, rsp)
      [] c.op = "get_lease" ->
            get_lease(c.query_params, c.fields, c.flag, rsp)
      [] c.op = "create_txt_record" ->
            create_txt_record(c.second, c.ident, rsp)
      [] c.op = "create_cname_record" ->
            create_cname_record(c.second, c.ident, rsp)
      [] c.op = "create_dhcp_range" ->
            create_dhcp_range(c.ident, c.second, rsp)
      [] c.op = "create_network" -> create_network(c.ident, rsp)
      [] c.op = "create_networkcontainer" ->
            create_networkcontainer(c.ident, rsp)
      [] c.op = "create_fixed_address" ->
            create_fixed_address(c.ident, c.second, c.confirm, rsp)
      [] c.op = "restart_grid_services" ->
            restart_grid_services(Value("payload", <<>>, <<>>), c.ident, rsp)
      [] c.op = "update_record" ->
            update_record([NoRecord EXCEPT !.ref = Ref("record:host", c.ident)],
                          Value("fields", <<>>, <<>>), c.confirm, rsp)
      [] OTHER -> Raise(<<>>, TypeError)

\* A call: Python raises TypeError, before the body runs, when a not-found
\* flag is passed to an operation whose signature has none.
Run(c, rsp) ==
    IF ~c.flag /\ ~has_flag(c.op) THEN Raise(<<>>, TypeError)
    ELSE Dispatch(c, rsp)

(***************************************************************************)
(* The appliance: the answers the network may give to a request.           *)
(***************************************************************************)
Statuses == {200, 201, 202, 304, 400}

ErrorBodies ==
    {Invalid, List(<<>>), Object(Absent, Absent),
     Object("msg", Absent), Object("msg", "Client.Ibap.Data")}

\* The resource an operation searches.
Resource(op) ==
    CASE op \in {"delete_host_record", "add_host_alias", "delete_host_alias",
                 "get_host_extattrs", "get_host_by_extattrs",
                 "create_host_record", "get_host", "get_host_by_alias",
                 "get_host_by_regexp", "get_ip_by_host", "update_record"}
            -> "record:host"
      [] op \in {"delete_txt_record", "get_txt_by_regexp",
                 "create_txt_record"}
            -> "record:txt"
      [] op \in {"delete_cname_record", "update_cname_record",
                 "get_cname_record", "create_cname_record"}
            -> "record:cname"
      [] op \in {"get_a_record_by_fqdn", "get_a_record_by_ip"} -> "record:a"
      [] op \in {"get_network_by_ip", "get_ipv4address_by_ip",
                 "get_host_by_ip"}
            -> "ipv4address"
      [] op \in {"delete_dhcp_range", "get_dhcp_range", "create_dhcp_range"}
            -> "range"
      [] op = "get_lease" -> "lease"
      [] op = "get_pending_changes"
            -> "grid:servicerestart:request:changedobject"
      [] op \in {"delete_network", "update_network_extattrs",
                 "delete_network_extattrs", "get_next_available_ip",
                 "get_network_extattrs", "get_network_by_extattrs",
                 "get_network", "create_network"}
            -> "network"
      [] op \in {"delete_networkcontainer", "get_next_available_network",
                 "create_networkcontainer"}
            -> "networkcontainer"
      [] op \in {"delete_fixed_address", "get_fixed_address",
                 "create_fixed_address"}
            -> "fixedaddress"
      [] OTHER -> "grid"

\* Addresses as character sequences: 10.0.0.5, 1.0.0.6, 1.0.0.0/24,
\* 1.0.0.1-1.0.0.9
Static1 == <<"1", "0", ".", "0", ".", "0", ".", "5">>
Static2 == <<"1", ".", "0", ".", "0", ".", "6">>
Cidr1 == <<"1", ".", "0", ".", "0", ".", "0", "/", "2", "4">>
Range1 ==
    <<"1", ".", "0", ".", "0", ".", "1", "-", "1", ".", "0", ".", "0", ".", "9">>

Refs(type) ==
    {EmptyRef, Ref("other", "n1")} \cup {Ref(type, n) : n \in Identities}

\* Alias lists and extensible attributes an object may carry.
AliasLists ==
    {<<>>, <<"a1">>, <<"a2">>, <<"a1", "a2">>, <<"a1", "a1">>}

Extattrs ==
    UNION {[S -> {[value |-> v] : v \in AttrValues}] : S \in SUBSET AttrNames}

Records(c) ==
    LET refs == Refs(Resource(c.op)) IN
    CASE c.op \in {"add_host_alias", "delete_host_alias"} ->
            {[NoRecord EXCEPT !.ref = ref] : ref \in refs}
            \cup {[NoRecord EXCEPT !.ref = ref, !.hasAliases = TRUE,
                                   !.aliases = l] :
                      ref \in refs, l \in AliasLists}
      [] c.op \in {"update_network_extattrs", "delete_network_extattrs"} ->
            {[NoRecord EXCEPT !.ref = ref, !.extattrs = e] :
                ref \in refs, e \in Extattrs}
      [] c.op \in {"get_host_extattrs", "get_network_extattrs"} ->
            {[NoRecord EXCEPT !.ref = Ref(Resource(c.op), c.ident),
                             !.extattrs = e] : e \in Extattrs}
      [] c.op = "get_network_by_extattrs" ->
            {[NoRecord EXCEPT !.ref = Ref("network", n), !.network = n] :
                n \in Identities}
            \cup {[NoRecord EXCEPT !.ref = Ref("network", "n1")]}
      [] c.op = "get_host_by_extattrs" ->
            {[NoRecord EXCEPT !.ref = Ref("record:host", n), !.name = n] :
                n \in Identities}
            \cup {[NoRecord EXCEPT !.ref = Ref("record:host", "n1")]}
      [] c.op = "get_host_by_regexp" ->
            {[NoRecord EXCEPT !.ref = Ref("record:host", n), !.name = n] :
                n \in Identities}
            \cup {[NoRecord EXCEPT !.ref = Ref("record:host", "n1")]}
      [] c.op = "get_txt_by_regexp" ->
            {[NoRecord EXCEPT !.ref = Ref("record:txt", n), !.name = n,
                             !.text = "t1"] : n \in Identities}
            \cup {[NoRecord EXCEPT !.ref = Ref("record:txt", "n1"),
                                   !.name = "n1"]}
      [] c.op = "get_ip_by_host" ->
            {[NoRecord EXCEPT !.ref = Ref("record:host", c.ident)],
             [NoRecord EXCEPT !.ref = Ref("record:host", c.ident),
                              !.hasIpv4addrs = TRUE],
             [NoRecord EXCEPT !.ref = Ref("record:host", c.ident),
                              !.hasIpv4addrs = TRUE,
                              !.ipv4addrs = <<[ipv4addr |-> Static2]>>]}
      [] c.op = "get_network_by_ip" ->
            {[NoRecord EXCEPT !.ref = Ref("ipv4address", c.ident)]}
            \cup {[NoRecord EXCEPT !.ref = Ref("ipv4address", c.ident),
                                   !.network = n] : n \in Identities}
      [] c.op = "get_host_by_ip" ->
            {[NoRecord EXCEPT !.ref = Ref("ipv4address", c.ident)],
             [NoRecord EXCEPT !.ref = Ref("ipv4address", c.ident),
                              !.hasNames = TRUE, !.names = <<"n1">>]}
      [] OTHER -> {[NoRecord EXCEPT !.ref = ref] : ref \in refs}

SearchBodies(c) ==
    {Invalid, List(<<>>)}
    \cup {List(<<rec>>) : rec \in Records(c)}
    \cup {List(<<rec, rec>>) : rec \in Records(c)}

\* Bodies of the answers to a POST: errors, and the objects a function call
\* or a create with _return_fields answers with.
PostBodies(c) ==
    ErrorBodies
    \cup (CASE c.op = "get_next_available_ip" ->
                {[Object(Absent, Absent) EXCEPT !.ips = <<a>>] :
                    a \in {Static1, Static2}}
            [] c.op = "get_next_available_network" ->
                {[Object(Absent, Absent) EXCEPT !.networks = <<Cidr1>>]}
            [] c.op = "create_host_record" ->
                {[Object(Absent, Absent) EXCEPT
                      !.ipv4addrs = <<[ipv4addr |-> a]>>] :
                    a \in {Static1, Static2}}
            [] c.op \in {"create_txt_record", "create_cname_record",
                         "create_dhcp_range", "create_network",
                         "create_networkcontainer", "create_fixed_address"}
                -> {String}
            [] OTHER -> {})

Answers(c, req) ==
    {Failure}
    \cup (CASE req.method = "GET" ->
                {Response(200, b) : b \in SearchBodies(c)}
                \cup {Response(s, b) : s \in Statuses \ {200},
                                       b \in ErrorBodies}
            [] req.method = "POST" ->
                {Response(s, b) : s \in Statuses, b \in PostBodies(c)}
            [] OTHER ->
                {Response(s, b) : s \in Statuses,
                                  b \in {Invalid, Object("msg", Absent)}})

(***************************************************************************)
(* Actions.                                                                *)
(***************************************************************************)
Start(c) ==
    /\ outcome = "idle"
    /\ call' = c
    /\ rs' = <<>>
    /\ log' = Run(c, <<>>).log
    /\ outcome' = Run(c, <<>>).out
    /\ result' = Run(c, <<>>).res
    /\ session' = Session(log', rs')
    /\ caller_params' = IF c.passes
                        THEN set_return_fields(c.query_params, c.fields)
                        ELSE caller_params
    /\ UNCHANGED <<store, last, config, peer, served>>

Call(op) == \E n \in Identities : Start([NoCall EXCEPT !.op = op, !.ident = n])

AddHostAlias ==
    \E h \in Identities, a \in AliasNames :
        Start([NoCall EXCEPT !.op = "add_host_alias", !.ident = h,
                             !.second = a])

DeleteHostAlias ==
    \E h \in Identities, a \in AliasNames :
        Start([NoCall EXCEPT !.op = "delete_host_alias", !.ident = h,
                             !.second = a])

UpdateCnameRecord ==
    \E name \in Identities, canonical \in Identities :
        Start([NoCall EXCEPT !.op = "update_cname_record", !.ident = name,
                             !.second = canonical])

UpdateNetworkExtattrs ==
    \E n \in Identities, S \in SUBSET AttrNames, py \in {"py2", "py3"} :
        \E attributes \in [S -> AttrValues] :
            Start([NoCall EXCEPT !.op = "update_network_extattrs",
                                 !.ident = n, !.map = attributes, !.py = py])

\* Lists of attribute names a caller may pass (None and [] are both <<>>).
AttrLists == {<<>>, <<"x1">>, <<"x2">>, <<"x1", "x2">>, <<"x2", "x1">>}

DeleteNetworkExtattrs ==
    \E n \in Identities, attributes \in AttrLists :
        Start([NoCall EXCEPT !.op = "delete_network_extattrs",
                             !.ident = n, !.attrs = attributes])

\* Addresses a caller may pass: the four well-formed ones and malformed
\* ones, among them a dotted quad followed by a newline.
Malformed ==
    {<<>>, <<"x">>, <<"n", "o", "t", "-", "a", "n", "-", "i", "p">>,
     <<"1", ".", "0", ".", "0">>, Static2 \o <<"/">>, Static2 \o <<"x">>,
     <<"x">> \o Static2, Static2 \o <<"\n">>, Cidr1 \o <<"/">>,
     Static2 \o <<"\n", "\n">>}

Addresses == {Static1, Static2, Cidr1, Range1} \cup Malformed

CreateHostRecord ==
    \E address \in Addresses, custom \in BOOLEAN :
        Start([NoCall EXCEPT !.op = "create_host_record", !.ident = "n1",
                             !.addr = address, !.custom = custom])

\* Prefix lengths a caller may ask for.
Cidrs == {24, 28}

GetNextAvailableNetwork ==
    \E n \in Identities, cidr \in Cidrs :
        Start([NoCall EXCEPT !.op = "get_next_available_network",
                             !.ident = n, !.cidr = cidr])

GetHostExtattrs ==
    \E fqdn \in Identities, attributes \in AttrLists :
        Start([NoCall EXCEPT !.op = "get_host_extattrs", !.ident = fqdn,
                             !.attrs = attributes])

GetNetworkExtattrs ==
    \E network \in Identities, attributes \in AttrLists :
        Start([NoCall EXCEPT !.op = "get_network_extattrs",
                             !.ident = network, !.attrs = attributes])

\* Filter strings: every string of at most MaxFilterLen characters
FilterChars == {"k", "=", "&", ","}
Filters ==
    UNION {[1..n -> FilterChars] : n \in 0..MaxFilterLen}

GetNetworkByExtattrs ==
    \E attributes \in Filters :
        Start([NoCall EXCEPT !.op = "get_network_by_extattrs",
                             !.addr = attributes])

GetHostByExtattrs ==
    \E attributes \in Filters :
        Start([NoCall EXCEPT !.op = "get_host_by_extattrs",
                             !.addr = attributes])

DeleteFixedAddress ==
    \E f \in Identities, not_found_fail \in BOOLEAN :
        Start([NoCall EXCEPT !.op = "delete_fixed_address", !.ident = f,
                             !.flag = not_found_fail])

\* A read whose signature has a not-found flag: get_host_by_alias,
\* get_ipv4address_by_ip, get_host_by_ip, get_a_record_by_ip, get_dhcp_range,
\* get_fixed_address, get_grid.
Read(op) ==
    \E n \in Identities, flag \in BOOLEAN :
        Start([NoCall EXCEPT !.op = op, !.ident = n, !.flag = flag])

\* The fields a caller asks for: none, a string or a list of names.
Fields ==
    {None, Value("str", <<"ends">>, <<>>),
     Value("list", <<(<<"ends">>), (<<"starts">>)>>, <<>>)}

\* get_lease with the mapping the caller keeps (passes) or with none.
GetLease(passing) ==
    \E passes \in passing, fields \in Fields, flag \in BOOLEAN :
        Start([NoCall EXCEPT
                  !.op = "get_lease",
                  !.ident = IF passes THEN caller_params.address ELSE "",
                  !.passes = passes,
                  !.query_params = IF passes THEN caller_params ELSE NoParams,
                  !.fields = fields,
                  !.flag = flag])

GetPendingChanges ==
    \E flag \in BOOLEAN :
        Start([NoCall EXCEPT !.op = "get_pending_changes", !.flag = flag])

\* The reads whose signature has no not-found flag.
FlaglessReads ==
    {"get_cname_record", "get_a_record_by_fqdn", "get_host_by_regexp",
     "get_txt_by_regexp", "get_ip_by_host", "get_network",
     "get_network_by_ip", "get_host_extattrs", "get_network_extattrs",
     "get_network_by_extattrs", "get_host_by_extattrs"}

\* A caller asks one of them for None in place of NotFound.
OptOut ==
    \E op \in FlaglessReads, n \in Identities :
        Start([NoCall EXCEPT !.op = op, !.ident = n, !.flag = FALSE])

\* Creates of an object named by two values.
CreateTxtRecord ==
    \E fqdn \in Identities :
        Start([NoCall EXCEPT !.op = "create_txt_record", !.ident = fqdn,
                             !.second = "t1"])

CreateCnameRecord ==
    \E name \in Identities, canonical \in Identities :
        Start([NoCall EXCEPT !.op = "create_cname_record", !.ident = name,
                             !.second = canonical])

CreateDhcpRange ==
    \E start \in Identities, end \in Identities :
        Start([NoCall EXCEPT !.op = "create_dhcp_range", !.ident = start,
                             !.second = end])

CreateFixedAddress ==
    \E ipv4addr \in Identities, confirm \in BOOLEAN :
        Start([NoCall EXCEPT !.op = "create_fixed_address",
                             !.ident = ipv4addr, !.second = "mac",
                             !.confirm = confirm])

\* update_record of a record the caller holds.
UpdateRecord ==
    \E n \in Identities, confirm \in BOOLEAN :
        Start([NoCall EXCEPT !.op = "update_record", !.ident = n,
                             !.confirm = confirm])

\* The network answers the request the handler is blocked in.
Respond ==
    /\ outcome = "pending"
    /\ \E tr \in Answers(call, log[Len(log)]) :
        /\ rs' = Append(rs, tr)
        /\ log' = Run(call, rs').log
        /\ outcome' = Run(call, rs').out
        /\ result' = Run(call, rs').res
        /\ session' = Session(log', rs')
    /\ UNCHANGED <<call, store, last, config, caller_params, peer, served>>

\* A variant of Finish in which the operation has changed the DNS view of
\* the client.  Property C20 tells it from Finish.
Finish_reconfigured ==
    /\ outcome \notin {"idle", "pending"}
    /\ call' = NoCall
    /\ rs' = <<>>
    /\ log' = <<>>
    /\ outcome' = "idle"
    /\ result' = None
    /\ session' = Session(<<>>, <<>>)
    /\ config' = [config EXCEPT !.iba_dns_view = "changed"]
    /\ UNCHANGED <<store, last, caller_params, peer, served>>

\* The operation has returned or raised: the caller takes the outcome and
\* the client is ready for the next call.
Finish ==
    /\ outcome \notin {"idle", "pending"}
    /\ call' = NoCall
    /\ rs' = <<>>
    /\ log' = <<>>
    /\ outcome' = "idle"
    /\ result' = None
    /\ session' = Session(<<>>, <<>>)
    /\ UNCHANGED <<store, last, config, caller_params, peer, served>>

(***************************************************************************)
(* An appliance that keeps the alias list of one host record, StoredHost,  *)
(* exactly as it is PUT, and answers every lookup from it.                 *)
(***************************************************************************)
StoredHost == "n1"

\* The answers of the appliance to a lookup of host fqdn: the host found
\* with its aliases (an empty list may be sent or left out), or nothing.
Found(fqdn) ==
    IF fqdn # StoredHost THEN {List(<<>>)}
    ELSE {List(<<[NoRecord EXCEPT !.ref = Ref("record:host", StoredHost),
                                  !.name = StoredHost,
                                  !.hasAliases = TRUE,
                                  !.aliases = store]>>)}
         \cup (IF store # <<>> THEN {}
               ELSE {List(<<[NoRecord EXCEPT
                                !.ref = Ref("record:host", StoredHost),
                                !.name = StoredHost]>>)})

\* The appliance answers the pending request: a lookup from the store; a
\* PUT of at most MaxAliases aliases by storing them, a longer one by
\* refusing it.
Appliance(req) ==
    IF req.method = "GET"
    THEN {Response(200, b) : b \in Found(req.ident)}
    ELSE IF Len(req.data.seq) <= MaxAliases
    THEN {Response(200, Object(Absent, Absent))}
    ELSE {Response(400, Object("msg", Absent))}

Serve ==
    /\ outcome = "pending"
    /\ LET req == log[Len(log)] IN
       \E tr \in Appliance(req) :
            /\ rs' = Append(rs, tr)
            /\ store' = IF req.method = "PUT" /\ tr.status_code = 200
                        THEN req.data.seq ELSE store
            /\ log' = Run(call, rs').log
            /\ outcome' = Run(call, rs').out
            /\ result' = Run(call, rs').res
            /\ session' = Session(log', rs')
    /\ UNCHANGED <<call, last, config, caller_params, peer, served>>

\* The request is lost: nothing is stored and the client sees a failure.
Lose ==
    /\ outcome = "pending"
    /\ rs' = Append(rs, Failure)
    /\ log' = Run(call, rs').log
    /\ outcome' = Run(call, rs').out
    /\ result' = Run(call, rs').res
    /\ session' = Session(log', rs')
    /\ UNCHANGED <<call, store, last, config, caller_params, peer, served>>

GetHost ==
    \E fqdn \in Identities, notFoundFail \in BOOLEAN :
        Start([NoCall EXCEPT !.op = "get_host", !.ident = fqdn,
                             !.flag = notFoundFail])

\* As Finish, remembering the call that has ended.
FinishAlias ==
    /\ outcome \notin {"idle", "pending"}
    /\ last' = [op |-> call.op, ident |-> call.ident,
                second |-> call.second, out |-> outcome]
    /\ call' = NoCall
    /\ rs' = <<>>
    /\ log' = <<>>
    /\ outcome' = "idle"
    /\ result' = None
    /\ session' = Session(<<>>, <<>>)
    /\ UNCHANGED <<store, config, caller_params, peer, served>>

NoLast == [op |-> "none", ident |-> "", second |-> "", out |-> "idle"]

\* The mapping {'address': 'n1'} of the caller.
CallerParams == Params("n1", FALSE, <<>>)

\* A client that has not been called.
NoPeer ==
    [call |-> NoCall, rs |-> <<>>, log |-> <<>>, outcome |-> "idle",
     result |-> None]

Init ==
    /\ call = NoCall
    /\ rs = <<>>
    /\ log = <<>>
    /\ outcome = "idle"
    /\ result = None
    /\ store = <<>>
    /\ last = NoLast
    /\ session = Session(<<>>, <<>>)
    /\ config = Constructed
    /\ caller_params = CallerParams
    /\ peer = NoPeer
    /\ served = <<>>

Next ==
    \/ Call("delete_host_record")
    \/ Call("delete_txt_record")
    \/ Call("delete_cname_record")
    \/ Call("delete_dhcp_range")
    \/ Call("delete_network")
    \/ Call("delete_networkcontainer")
    \/ AddHostAlias
    \/ DeleteHostAlias
    \/ UpdateCnameRecord
    \/ UpdateNetworkExtattrs
    \/ DeleteNetworkExtattrs
    \/ DeleteFixedAddress
    \/ CreateHostRecord
    \/ Call("get_next_available_ip")
    \/ GetNextAvailableNetwork
    \/ GetHostExtattrs
    \/ GetNetworkExtattrs
    \/ GetNetworkByExtattrs
    \/ GetHostByExtattrs
    \/ GetHost
    \/ Read("get_host_by_alias")
    \/ Read("get_ipv4address_by_ip")
    \/ Read("get_host_by_ip")
    \/ Read("get_a_record_by_ip")
    \/ Read("get_dhcp_range")
    \/ Read("get_fixed_address")
    \/ Read("get_grid")
    \/ GetLease({FALSE})
    \/ GetPendingChanges
    \/ Call("get_cname_record")
    \/ Call("get_a_record_by_fqdn")
    \/ Call("get_host_by_regexp")
    \/ Call("get_txt_by_regexp")
    \/ Call("get_ip_by_host")
    \/ Call("get_network")
    \/ Call("get_network_by_ip")
    \/ OptOut
    \/ CreateTxtRecord
    \/ CreateCnameRecord
    \/ CreateDhcpRange
    \/ Call("create_network")
    \/ Call("create_networkcontainer")
    \/ CreateFixedAddress
    \/ Call("restart_grid_services")
    \/ UpdateRecord
    \/ Respond
    \/ Finish

Spec == Init /\ [][Next]_vars

NextAlias ==
    \/ AddHostAlias
    \/ DeleteHostAlias
    \/ GetHost
    \/ Serve
    \/ Lose
    \/ FinishAlias

AliasSpec == Init /\ [][NextAlias]_vars

\* Two clients of the same appliance, each running add_host_alias or
\* delete_host_alias; the appliance serves one pending request at a time,
\* in any order.  The first client is the one of call, rs, log, outcome; the
\* second is peer.
PeerCall ==
    /\ peer.outcome = "idle"
    /\ \E op \in {"add_host_alias", "delete_host_alias"}, a \in AliasNames :
          LET c == [NoCall EXCEPT !.op = op, !.ident = StoredHost,
                                  !.second = a]
          IN  peer' = [call |-> c, rs |-> <<>>, log |-> Run(c, <<>>).log,
                       outcome |-> Run(c, <<>>).out,
                       result |-> Run(c, <<>>).res]
    /\ UNCHANGED <<call, rs, log, outcome, result, store, last, session,
                   config, caller_params, served>>

\* The appliance serves the request of the first client.
ServeFirst ==
    /\ outcome = "pending"
    /\ LET req == log[Len(log)] IN
       \E tr \in Appliance(req) :
            /\ rs' = Append(rs, tr)
            /\ store' = IF req.method = "PUT" /\ tr.status_code = 200
                        THEN req.data.seq ELSE store
            /\ served' = Append(served, <<1, req.method>>)
            /\ log' = Run(call, rs').log
            /\ outcome' = Run(call, rs').out
            /\ result' = Run(call, rs').res
            /\ session' = Session(log', rs')
    /\ UNCHANGED <<call, last, config, caller_params, peer>>

\* The appliance serves the request of the second client.
ServeSecond ==
    /\ peer.outcome = "pending"
    /\ LET req == peer.log[Len(peer.log)] IN
       \E tr \in Appliance(req) :
            LET answers == Append(peer.rs, tr) IN
            /\ peer' = [peer EXCEPT !.rs = answers,
                                    !.log = Run(peer.call, answers).log,
                                    !.outcome = Run(peer.call, answers).out,
                                    !.result = Run(peer.call, answers).res]
            /\ store' = IF req.method = "PUT" /\ tr.status_code = 200
                        THEN req.data.seq ELSE store
            /\ served' = Append(served, <<2, req.method>>)
    /\ UNCHANGED <<call, rs, log, outcome, result, last, session, config,
                   caller_params>>

\* Both clients have ended (or were not called): they take their outcomes
\* and are ready for their next calls.
Settle ==
    /\ outcome # "pending"
    /\ peer.outcome # "pending"
    /\ outcome # "idle" \/ peer.outcome # "idle"
    /\ call' = NoCall
    /\ rs' = <<>>
    /\ log' = <<>>
    /\ outcome' = "idle"
    /\ result' = None
    /\ session' = Session(<<>>, <<>>)
    /\ peer' = NoPeer
    /\ served' = <<>>
    /\ UNCHANGED <<store, last, config, caller_params>>

NextRace ==
    \/ AddHostAlias
    \/ DeleteHostAlias
    \/ PeerCall
    \/ ServeFirst
    \/ ServeSecond
    \/ Settle

RaceSpec == Init /\ [][NextRace]_vars

\* A caller that keeps one query_params mapping and calls get_lease with it
\* or without, against any appliance.
NextLease ==
    \/ GetLease(BOOLEAN)
    \/ Respond
    \/ Finish

LeaseSpec == Init /\ [][NextLease]_vars

(***************************************************************************)
(* Properties.                                                             *)
(***************************************************************************)
LookupThenMutate ==
    {"delete_host_record", "delete_txt_record", "delete_cname_record",
     "add_host_alias", "delete_host_alias", "update_cname_record",
     "delete_dhcp_range", "delete_network", "delete_networkcontainer",
     "update_network_extattrs", "delete_network_extattrs",
     "delete_fixed_address"}

\* A PUT or DELETE request is among reqs.
Mutates(reqs) == \E i \in DOMAIN reqs : reqs[i].method \in {"PUT", "DELETE"}

\* The operation has ended by returning or raising.
Ended == outcome \notin {"idle", "pending"}

\* The first request has been answered with status 200 and a JSON array.
LookupAnswered ==
    /\ Len(rs) >= 1
    /\ ~rs[1].fail
    /\ rs[1].status_code = 200
    /\ rs[1].body.kind = "list"

\* The lookup has found at least one record.
LookupFound == LookupAnswered /\ Len(rs[1].body.items) > 0

\* C1: in every lookup-then-mutate operation (delete_fixed_address with its
\* default flag), once the lookup GET is answered with status 200 and an
\* empty list the operation has ended by raising InfobloxNotFoundException
\* and no PUT or DELETE is among the requests it has issued.
C1_EmptyLookupRaisesNotFound ==
    (/\ call.op \in LookupThenMutate
     /\ call.op = "delete_fixed_address" => call.flag
     /\ LookupAnswered
     /\ rs[1].body.items = <<>>)
    => (/\ outcome = InfobloxNotFoundException
        /\ Len(log) = 1
        /\ ~Mutates(log))

\* C1 witness: delete_fixed_address, with its default flag, has raised
\* NotFound on an empty lookup.
C1_Witness ==
    /\ call.op = "delete_fixed_address"
    /\ call.flag
    /\ rs = <<Response(200, List(<<>>))>>
    /\ outcome = InfobloxNotFoundException

\* C2: in every lookup-then-mutate operation, if the lookup returns a
\* non-empty list whose first reference is of the searched type and embeds
\* an identity other than the requested one, the operation raises
\* InfobloxGeneralException and issues no PUT or DELETE.  (Violated: only
\* the host, txt, cname-delete and alias operations compare the identity.)
C2_MismatchedIdentityRaisesGeneral ==
    (/\ call.op \in LookupThenMutate
     /\ LookupFound
     /\ rs[1].body.items[1].ref.type = Resource(call.op)
     /\ rs[1].body.items[1].ref.name # call.ident)
    => (/\ ~Mutates(log)
        /\ Ended => outcome = InfobloxGeneralException)

\* C2 witness: delete_network of n1 has sent a DELETE for the reference of
\* network n2 and returned.
C2_Witness ==
    /\ call.op = "delete_network"
    /\ call.ident = "n1"
    /\ LookupFound
    /\ rs[1].body.items[1].ref = Ref("network", "n2")
    /\ Len(log) = 2
    /\ log[2].method = "DELETE"
    /\ log[2].ref = Ref("network", "n2")
    /\ outcome = "return"

\* The exception that stands for exhaustion in each function call.
Exhausted(op) ==
    IF op = "get_next_available_ip" THEN InfobloxNoIPavailableException
    ELSE InfobloxNoNetworkAvailableException

\* C3: in get_next_available_ip and get_next_available_network, when the
\* lookup has found the parent and the function-call POST is answered with
\* an error status (4xx or 5xx) and a JSON body whose code is
\* Client.Ibap.Data, the operation raises InfobloxNoIPavailableException
\* (respectively InfobloxNoNetworkAvailableException).  (Violated:
\* Session.request raises HTTPError first.)
C3_ExhaustionRaisesNoneAvailable ==
    (/\ call.op \in {"get_next_available_ip", "get_next_available_network"}
     /\ LookupFound
     /\ Len(rs) = 2
     /\ ~rs[2].fail
     /\ rs[2].status_code >= 400
     /\ rs[2].body.kind = "obj"
     /\ rs[2].body.code = "Client.Ibap.Data")
    => outcome = Exhausted(call.op)

\* C3 witness: the POST of get_next_available_ip was answered 400 with code
\* Client.Ibap.Data and the operation has raised HTTPError.
C3_Witness ==
    /\ call.op = "get_next_available_ip"
    /\ LookupFound
    /\ Len(rs) = 2
    /\ rs[2] = Response(400, Object("msg", "Client.Ibap.Data"))
    /\ outcome = HTTPError

\* C4: update_cname_record, once its lookup is answered with status 200 and
\* more than one record, has raised an exception and has issued no PUT.
\* (Violated: it returns None.)
C4_SeveralCnamesRaise ==
    (/\ call.op = "update_cname_record"
     /\ LookupAnswered
     /\ Len(rs[1].body.items) > 1)
    => (/\ outcome \in Exceptions
        /\ ~Mutates(log))

\* C4 witness: update_cname_record has returned normally, without a PUT,
\* on a lookup that found two records.
C4_Witness ==
    /\ call.op = "update_cname_record"
    /\ LookupAnswered
    /\ Len(rs[1].body.items) = 2
    /\ outcome = "return"
    /\ result = None
    /\ Len(log) = 1

\* C5: delete_host_alias, when the host is found under the requested name
\* and the alias is not among its aliases (no 'aliases' field, or a list
\* without the alias), raises InfobloxNotFoundException and issues no PUT.
\* (Violated: a list without the alias gives InfobloxGeneralException.)
C5_AbsentAliasRaisesNotFound ==
    (/\ call.op = "delete_host_alias"
     /\ LookupFound
     /\ rs[1].body.items[1].ref = Ref("record:host", call.ident)
     /\ call.second \notin Range(rs[1].body.items[1].aliases))
    => (/\ outcome = InfobloxNotFoundException
        /\ ~Mutates(log))

\* C5 witness: delete_host_alias of a1 on a host whose alias list is <<a2>>
\* has raised InfobloxGeneralException.
C5_Witness ==
    /\ call.op = "delete_host_alias"
    /\ call.second = "a1"
    /\ LookupFound
    /\ rs[1].body.items[1].ref = Ref("record:host", call.ident)
    /\ rs[1].body.items[1].hasAliases
    /\ rs[1].body.items[1].aliases = <<"a2">>
    /\ outcome = InfobloxGeneralException
    /\ Len(log) = 1

\* A host lookup has returned the record of the host on which the call
\* just before it, op, succeeded.
LookupRightAfter(op) ==
    /\ call.op = "get_host"
    /\ outcome = "return"
    /\ result # None
    /\ last.op = op
    /\ last.out = "return"
    /\ last.ident = call.ident

\* C6: against the appliance that stores the alias list it is PUT, a host
\* lookup right after a successful add_host_alias(host, a) has a among the
\* aliases, and a host lookup right after a successful
\* delete_host_alias(host, a) has not.  (Violated: an alias added twice is
\* still there after one delete.)
C6_AliasRoundTrip ==
    /\ LookupRightAfter("add_host_alias")
        => last.second \in Range(result.seq[1].aliases)
    /\ LookupRightAfter("delete_host_alias")
        => last.second \notin Range(result.seq[1].aliases)

\* C6 witness: the lookup right after a successful delete_host_alias of a1
\* still shows a1.
C6_Witness ==
    /\ LookupRightAfter("delete_host_alias")
    /\ last.second = "a1"
    /\ "a1" \in Range(result.seq[1].aliases)

\* The address is dotted-quad, CIDR or range: runs of digits with the
\* separators of the form, and nothing else.
WellFormed(address) == runs(address) \in {STATIC, CIDR, RANGE}

\* C7: create_host_record with an address that is neither CIDR, range nor
\* dotted-quad raises InfobloxBadInputParameter and issues no request,
\* with or without a custom payload.  (Violated: a well-formed address
\* followed by a newline is accepted and POSTed.)
C7_MalformedAddressRejected ==
    (/\ call.op = "create_host_record"
     /\ ~WellFormed(call.addr))
    => (/\ outcome = InfobloxBadInputParameter
        /\ log = <<>>)

\* C7 witness: create_host_record of "1.0.0.6\n" is blocked in its POST.
C7_Witness ==
    /\ call.op = "create_host_record"
    /\ call.addr = Static2 \o <<"\n">>
    /\ outcome = "pending"
    /\ Len(log) = 1
    /\ log[1].method = "POST"

\* C8: create_host_record with a well-formed address and no custom payload
\* issues exactly one POST, on record:host, whose payload has a single
\* ipv4addrs entry: the address itself when it is dotted-quad,
\* 'func:nextavailableip:' followed by the address when it is CIDR or
\* range; and when that POST is answered with success and a body whose
\* first ipv4addrs entry carries a dotted-quad address equal to the one
\* sent, the operation returns exactly that address.
C8_StaticAddressVerbatim ==
    (/\ call.op = "create_host_record"
     /\ WellFormed(call.addr)
     /\ ~call.custom)
    => (/\ Len(log) = 1
        /\ log[1].method = "POST"
        /\ log[1].resource = "record:host"
        /\ Len(log[1].data.seq) = 1
        /\ log[1].data.seq[1].ipv4addr =
              (IF runs(call.addr) = STATIC THEN call.addr
               ELSE <<"func:nextavailableip:">> \o call.addr)
        /\ (/\ runs(call.addr) = STATIC
            /\ Len(rs) = 1
            /\ ~rs[1].fail
            /\ rs[1].status_code \in {200, 201}
            /\ rs[1].body.kind = "obj"
            /\ rs[1].body.ipv4addrs # <<>>
            /\ rs[1].body.ipv4addrs[1].ipv4addr = call.addr)
           => (/\ outcome = "return"
               /\ result = Value("str", call.addr, <<>>)))

\* C8 witness: create_host_record of 10.0.0.5 has returned 10.0.0.5 after a
\* POST answered 201 with the address echoed.
C8_Witness ==
    /\ call.op = "create_host_record"
    /\ call.addr = Static1
    /\ ~call.custom
    /\ Len(rs) = 1
    /\ ~rs[1].fail
    /\ rs[1].status_code = 201
    /\ rs[1].body.ipv4addrs = <<[ipv4addr |-> Static1]>>
    /\ outcome = "return"
    /\ result = Value("str", Static1, <<>>)

\* C9: in get_host_extattrs and get_network_extattrs, when the parent
\* object is found: if a requested attribute name is absent from its
\* extattrs the operation raises InfobloxNotFoundException; if no names
\* are requested it returns the mapping of every attribute name of the
\* object to the value inside its wrapper.
C9_ExtattrsRead ==
    (/\ call.op \in {"get_host_extattrs", "get_network_extattrs"}
     /\ LookupFound)
    => LET extattrs == rs[1].body.items[1].extattrs IN
       /\ (\E i \in DOMAIN call.attrs : call.attrs[i] \notin DOMAIN extattrs)
           => outcome = InfobloxNotFoundException
       /\ call.attrs = <<>>
           => (/\ outcome = "return"
               /\ result.kind = "dict"
               /\ DOMAIN result.map = DOMAIN extattrs
               /\ \A a \in DOMAIN extattrs :
                      [value |-> result.map[a]] = extattrs[a])

\* C9 witness: get_network_extattrs without names has returned both
\* attributes of a network, unwrapped.
C9_Witness ==
    /\ call.op = "get_network_extattrs"
    /\ call.attrs = <<>>
    /\ LookupFound
    /\ DOMAIN rs[1].body.items[1].extattrs = {"x1", "x2"}
    /\ outcome = "return"
    /\ DOMAIN result.map = {"x1", "x2"}
    /\ result.map["x1"] = rs[1].body.items[1].extattrs["x1"].value

\* C9 witness for the other half is the state where get_host_extattrs asked
\* for x1 and x2 of a host that has x1 only.
C9_MissingNameReached ==
    /\ call.op = "get_host_extattrs"
    /\ call.attrs = <<"x1", "x2">>
    /\ LookupFound
    /\ DOMAIN rs[1].body.items[1].extattrs = {"x1"}
    /\ outcome = InfobloxNotFoundException

\* Positions of the commas of a filter string, and the number of them
\* before position j.
Commas(s) == {j \in DOMAIN s : s[j] = ","}
CommasBefore(s, j) == Cardinality({k \in Commas(s) : k < j})

\* C10: get_network_by_extattrs and get_host_by_extattrs issue one GET
\* whose query string, for a filter string of n comma-separated clauses, is
\* the n clauses in their order, each with '*' put before it and otherwise
\* character for character as in the filter, separated by '&', followed
\* by '&' and the view parameter: the query starts with '*', every comma
\* of the filter has become '&*', every other character is kept in place,
\* and nothing else is added but the view parameter.
C10_FilterToQuery ==
    (/\ call.op \in {"get_network_by_extattrs", "get_host_by_extattrs"}
     /\ call.flag
     /\ outcome # "idle")
    => LET s == call.addr
           q == log[1].query
           n == Cardinality(Commas(s)) + 1
           view == IF call.op = "get_network_by_extattrs"
                   THEN <<"network_view=", iba_network_view>>
                   ELSE <<"view=", iba_dns_view>>
       IN  /\ Len(log) = 1
           /\ log[1].method = "GET"
           /\ Len(q) = Len(s) + n + 3
           /\ q[1] = "*"
           /\ \A j \in DOMAIN s :
                  IF s[j] = ","
                  THEN /\ q[j + CommasBefore(s, j) + 1] = "&"
                       /\ q[j + CommasBefore(s, j) + 2] = "*"
                  ELSE q[j + CommasBefore(s, j) + 1] = s[j]
           /\ SubSeq(q, Len(q) - 2, Len(q)) = <<"&">> \o view
           /\ Cardinality({i \in 1..(Len(q) - 3) : q[i] = "*"}) = n

\* C10 witness: get_host_by_extattrs with the two clauses k= and = has
\* asked for *k=&*=&view=<dns view>.
C10_Witness ==
    /\ call.op = "get_host_by_extattrs"
    /\ call.addr = <<"k", "=", ",", "=">>
    /\ Len(log) = 1
    /\ log[1].query =
          <<"*", "k", "=", "&", "*", "=", "&", "view=", iba_dns_view>>

\* The last answer received is a response (not a transport failure).
LastAnswer == rs[Len(rs)]
Answered == Len(rs) >= 1 /\ ~LastAnswer.fail

\* C11: for every operation, when a request is answered with a non-success
\* status (other than 200 and 201) and a JSON object with a 'text' field,
\* the operation ends in InfobloxGeneralException or in the exception for
\* exhaustion; the raw HTTPError is left to bodies without 'text'.
\* (Violated: Session.request raises HTTPError for 4xx and 5xx before the
\* body is read.)
C11_ErrorTextBecomesGeneral ==
    (/\ Ended
     /\ Answered
     /\ LastAnswer.status_code \notin {200, 201}
     /\ LastAnswer.body.kind = "obj"
     /\ LastAnswer.body.text # Absent)
    => outcome \in {InfobloxGeneralException, InfobloxNoIPavailableException,
                    InfobloxNoNetworkAvailableException}

\* C11 witness: delete_host_record has raised HTTPError on a lookup
\* answered 400 with {'text': ...}.
C11_Witness ==
    /\ call.op = "delete_host_record"
    /\ rs = <<Response(400, Object("msg", Absent))>>
    /\ outcome = HTTPError

\* C12: for every operation that reads the body of the answer to its first
\* request (all but update_record), a first answer with a 2xx status and a
\* body that is not JSON ends the operation in InfobloxGeneralException
\* with that request as its only one.
C12_InvalidJsonRaisesGeneral ==
    (/\ call.op # "update_record"
     /\ Len(rs) >= 1
     /\ ~rs[1].fail
     /\ rs[1].status_code >= 200
     /\ rs[1].status_code < 300
     /\ rs[1].body.kind = "invalid")
    => (/\ outcome = InfobloxGeneralException
        /\ Len(log) = 1)

\* C12 witness: create_network has raised InfobloxGeneralException on a
\* POST answered 201 with an unparseable body.
C12_Witness ==
    /\ call.op = "create_network"
    /\ rs = <<Response(201, Invalid)>>
    /\ outcome = InfobloxGeneralException
    /\ Len(log) = 1

LookupReads ==
    {"get_host", "get_host_by_alias", "get_host_by_ip", "get_a_record_by_ip",
     "get_a_record_by_fqdn", "get_cname_record", "get_network",
     "get_network_by_ip", "get_ip_by_host", "get_host_by_regexp",
     "get_txt_by_regexp", "get_host_extattrs", "get_network_extattrs",
     "get_network_by_extattrs", "get_host_by_extattrs", "get_dhcp_range",
     "get_fixed_address", "get_grid", "get_lease"}

\* C13: every lookup-based read takes the opt-out flag (a call that passes
\* it reaches its lookup) and, on a lookup answered 200 with an empty
\* list, raises InfobloxNotFoundException when the flag is left at its
\* default and returns None when the caller opts out.  (Violated: eleven
\* of the reads have no such parameter.)
C13_ReadsOfferOptOut ==
    call.op \in LookupReads
    => (/\ ~call.flag => log # <<>>
        /\ (LookupAnswered /\ rs[1].body.items = <<>>)
            => IF call.flag THEN outcome = InfobloxNotFoundException
               ELSE outcome = "return" /\ result = None)

\* C13 witness: get_network called with an opt-out flag has raised
\* TypeError without a request.
C13_Witness ==
    /\ call.op = "get_network"
    /\ ~call.flag
    /\ outcome = TypeError
    /\ log = <<>>

\* C14: an operation returns normally only if every answer it received had
\* status 200, or 201 for a POST or PUT.  (Violated: another status below
\* 400 with a body without 'text' falls through to a normal return.)
C14_ReturnOnlyOnSuccess ==
    outcome = "return"
    => \A i \in DOMAIN rs :
          /\ ~rs[i].fail
          /\ \/ rs[i].status_code = 200
             \/ rs[i].status_code = 201 /\ log[i].method \in {"POST", "PUT"}

\* C14 witness: get_network has returned None on an answer 202 with an
\* object without 'text'.
C14_Witness ==
    /\ call.op = "get_network"
    /\ rs = <<Response(202, Object(Absent, Absent))>>
    /\ outcome = "return"
    /\ result = None

\* C15: for every request an operation has issued, Session.request has made
\* exactly one call of requests.Session.request, with that request,
\* whether it failed or not.
C15_OneUnderlyingRequest ==
    /\ Len(session.sent) = Len(log)
    /\ \A i \in DOMAIN log : session.sent[i] = <<log[i]>>

\* C15 witness: a request has failed in the network and one call was made
\* for it.
C15_Witness ==
    /\ Len(rs) = 1
    /\ rs[1].fail
    /\ session.sent = <<<<log[1]>>>>
    /\ outcome = ConnectionError

\* The log entry of Session.request for request req and failure tr.
Logged(req, tr) ==
    [url |-> [resource |-> req.resource, ident |-> req.ident,
              ref |-> req.ref, query |-> req.query],
     method |-> req.method,
     status |-> IF tr.fail THEN None
                ELSE Value("int", <<tr.status_code>>, <<>>),
     content |-> IF tr.fail THEN None ELSE Value("bytes", <<tr.body>>, <<>>)]

\* Session.request, for the answered request i, has logged the failure and
\* raised it unchanged if failed(rs[i]), and has logged nothing and
\* returned the response otherwise.
LogsAndReraises(i, failed) ==
    IF failed
    THEN /\ session.logged[i] = <<Logged(log[i], rs[i])>>
         /\ session.outs[i] = IF rs[i].fail THEN ConnectionError ELSE HTTPError
    ELSE /\ session.logged[i] = <<>>
         /\ session.outs[i] = "ok"

\* C16 as stated: Session.request logs and re-raises when the underlying
\* request raises or the status is not 2xx, and returns the response
\* without logging on 2xx.  (Violated: a 3xx response is returned without
\* a log entry.)
C16_LogsOnNon2xx ==
    \A i \in DOMAIN rs :
        LogsAndReraises(i, \/ rs[i].fail
                           \/ rs[i].status_code < 200
                           \/ rs[i].status_code >= 300)

\* C16: when the underlying request raises or the status is 4xx or 5xx,
\* Session.request logs one entry (url, method, status and content, None
\* for the two last when there is no response) and raises the same
\* failure; for any other response it logs nothing and returns it.
C16_LogsOnRaise ==
    \A i \in DOMAIN rs :
        LogsAndReraises(i, \/ rs[i].fail
                           \/ rs[i].status_code >= 400 /\ rs[i].status_code < 600)

\* C16 witness: a lookup answered 400 has been logged with its status and
\* content and HTTPError has been raised to the handler.
C16_Witness ==
    /\ Len(rs) = 1
    /\ ~rs[1].fail
    /\ rs[1].status_code = 400
    /\ Len(session.logged[1]) = 1
    /\ session.logged[1][1].method = "GET"
    /\ session.logged[1][1].status = Value("int", <<400>>, <<>>)
    /\ session.outs[1] = HTTPError

\* C17: an operation issues at most two requests, the second only once the
\* first has been answered 200 with a non-empty list to a GET; it is
\* blocked in its last request until that one is answered or fails, and
\* has ended only when every request has been.
C17_AtMostTwoSequential ==
    /\ Len(log) <= 2
    /\ Len(rs) <= Len(log)
    /\ outcome = "pending" => Len(rs) = Len(log) - 1
    /\ Ended => Len(rs) = Len(log)
    /\ Len(log) = 2 => (LookupFound /\ log[1].method = "GET")

\* C17 witness: restart_grid_services has ended after its second request.
C17_Witness ==
    /\ call.op = "restart_grid_services"
    /\ Len(log) = 2
    /\ Len(rs) = 2
    /\ log[2].method = "POST"
    /\ Ended

\* C18: whenever a PUT is answered with a non-success status, the
\* operation ends in InfobloxNotUpdatedException.  (Violated: only Util.put
\* raises it, and only for statuses that Session.request lets through.)
C18_FailedPutRaisesNotUpdated ==
    (/\ Answered
     /\ Len(rs) = Len(log)
     /\ log[Len(rs)].method = "PUT"
     /\ LastAnswer.status_code \notin {200, 201})
    => outcome = InfobloxNotUpdatedException

\* C18 witness: the PUT of add_host_alias was answered 400 and the
\* operation has raised HTTPError.
C18_Witness ==
    /\ call.op = "add_host_alias"
    /\ Len(rs) = 2
    /\ log[2].method = "PUT"
    /\ ~rs[2].fail
    /\ rs[2].status_code = 400
    /\ outcome = HTTPError

\* C19: every PUT or DELETE comes after a lookup GET of the same call and
\* targets the reference of the first record that lookup returned.
\* (Violated: update_record PUTs on the record of its caller.)
C19_MutationsTargetLookedUpReference ==
    \A i \in DOMAIN log :
        log[i].method \in {"PUT", "DELETE"}
        => (/\ i > 1
            /\ log[1].method = "GET"
            /\ LookupFound
            /\ log[i].ref = rs[1].body.items[1].ref)

\* C19 witness: update_record is blocked in a PUT that is its first
\* request.
C19_Witness ==
    /\ call.op = "update_record"
    /\ log # <<>>
    /\ log[1].method = "PUT"
    /\ rs = <<>>

\* C20: the configuration of the client and of its session is the one set
\* at construction, whatever operations have run.
C20_ConfigurationUnchanged == config = Constructed

\* C20 witness: an operation has ended in an error with the configuration
\* as constructed.
C20_Witness ==
    /\ outcome \in Exceptions
    /\ Len(log) = 2
    /\ config = Constructed

\* C21: InfobloxNotFoundException is raised only on the answer to a GET
\* with status 200 (no result, or a requested sub-field absent from the
\* object found); never on another status nor on a DELETE.  (Violated:
\* Util.delete_by_ref turns the HTTPError of a DELETE into it, and the
\* 'text' branches of five reads raise it for a status other than 200.)
C21_NotFoundOnlyOnLookup ==
    outcome = InfobloxNotFoundException
    => (/\ Answered
        /\ Len(rs) = Len(log)
        /\ log[Len(log)].method = "GET"
        /\ LastAnswer.status_code = 200)

\* C21 witness: delete_fixed_address has raised InfobloxNotFoundException
\* on a DELETE answered 400.
C21_Witness ==
    /\ call.op = "delete_fixed_address"
    /\ call.flag
    /\ Len(rs) = 2
    /\ log[2].method = "DELETE"
    /\ ~rs[2].fail
    /\ rs[2].status_code = 400
    /\ outcome = InfobloxNotFoundException

\* C21 second witness: get_network has raised it on an answer 202 with
\* 'text'.
C21_TextBranchReached ==
    /\ call.op = "get_network"
    /\ rs = <<Response(202, Object("msg", Absent))>>
    /\ outcome = InfobloxNotFoundException

\* C23: delete_fixed_address with not_found_fail=False whose lookup is
\* answered 200 with an empty list returns None, with the lookup as its
\* only request.  (Violated: ref[0] on None raises TypeError.)
C23_DeleteFixedAddressOptOut ==
    (/\ call.op = "delete_fixed_address"
     /\ ~call.flag
     /\ LookupAnswered
     /\ rs[1].body.items = <<>>)
    => (/\ outcome = "return"
        /\ result = None
        /\ Len(log) = 1)

\* C23 witness: the call has raised TypeError after the empty lookup, with
\* no DELETE.
C23_Witness ==
    /\ call.op = "delete_fixed_address"
    /\ ~call.flag
    /\ rs = <<Response(200, List(<<>>))>>
    /\ outcome = TypeError
    /\ Len(log) = 1

UtilReads ==
    {"get_host", "get_host_by_alias", "get_host_by_ip",
     "get_ipv4address_by_ip", "get_a_record_by_ip", "get_dhcp_range",
     "get_fixed_address", "get_grid", "get_lease", "get_pending_changes"}

\* The outcome of the call in progress had it been made with the given
\* not-found flag, on the answers received.
WithFlag(flag) == Run([call EXCEPT !.flag = flag], rs)

\* C24: for the reads built on Util.get, on an answer 200 with an empty
\* list the call with the flag false returns None, and on every other
\* answer or failure the call ends the same way with the flag false as with
\* the flag true.  (Violated: the reads that index the result return None
\* with the flag false and raise TypeError with the flag true when a
\* status other than 200 falls through Util.get.)
C24_FlagChangesEmptyResultOnly ==
    (call.op \in UtilReads /\ Len(rs) = 1)
    => IF LookupAnswered /\ rs[1].body.items = <<>>
       THEN WithFlag(FALSE).out = "return" /\ WithFlag(FALSE).res = None
       ELSE /\ WithFlag(FALSE).out = WithFlag(TRUE).out
            /\ WithFlag(FALSE).res = WithFlag(TRUE).res

\* C24 witness: get_host with the flag true has raised TypeError on an
\* answer 202 without 'text', on which the flag false gives None.
C24_Witness ==
    /\ call.op = "get_host"
    /\ call.flag
    /\ rs = <<Response(202, Object(Absent, Absent))>>
    /\ outcome = TypeError
    /\ WithFlag(FALSE).out = "return"
    /\ WithFlag(FALSE).res = None

\* The part of C24 that holds: the empty result gives None with the flag
\* false, and a status of 400 or more or an unparseable body raises the
\* same error under both flags.
C24_ErrorsUnchanged ==
    (call.op \in UtilReads /\ Len(rs) = 1)
    => /\ (LookupAnswered /\ rs[1].body.items = <<>>)
            => (WithFlag(FALSE).out = "return" /\ WithFlag(FALSE).res = None)
       /\ (rs[1].fail \/ rs[1].status_code >= 400 \/ rs[1].body.kind = "invalid")
            => (/\ WithFlag(FALSE).out = WithFlag(TRUE).out
                /\ WithFlag(TRUE).out \in Exceptions)

\* The call is a read of named attributes that the object found all has.
NamedAttributesPresent ==
    /\ LookupFound
    /\ call.attrs # <<>>
    /\ \A i \in DOMAIN call.attrs :
           call.attrs[i] \in DOMAIN rs[1].body.items[1].extattrs

\* The call has returned the mapping of exactly the requested names to
\* their unwrapped values.
ReturnsRequested ==
    /\ outcome = "return"
    /\ result.kind = "dict"
    /\ DOMAIN result.map = Range(call.attrs)
    /\ \A a \in Range(call.attrs) :
           result.map[a] = rs[1].body.items[1].extattrs[a].value

\* C25: get_host_extattrs and get_network_extattrs, asked for a non-empty
\* list of names that the found object all has, return the mapping of
\* exactly those names to their unwrapped values.  (Violated:
\* get_network_extattrs returns None.)
C25_RequestedAttributesReturned ==
    (/\ call.op \in {"get_host_extattrs", "get_network_extattrs"}
     /\ NamedAttributesPresent)
    => ReturnsRequested

\* C25 witness: get_network_extattrs asked for x1 of a network that has x1
\* and x2 has returned None.
C25_Witness ==
    /\ call.op = "get_network_extattrs"
    /\ call.attrs = <<"x1">>
    /\ LookupFound
    /\ DOMAIN rs[1].body.items[1].extattrs = {"x1", "x2"}
    /\ outcome = "return"
    /\ result = None

\* The part of C25 that holds: get_host_extattrs.
C25_HostAttributesReturned ==
    (call.op = "get_host_extattrs" /\ NamedAttributesPresent)
    => ReturnsRequested

\* The attributes of the network found, with every given name set to
\* {"value": given value}.
Merged ==
    LET extattrs == rs[1].body.items[1].extattrs IN
    [a \in DOMAIN extattrs \cup DOMAIN call.map |->
        IF a \in DOMAIN call.map THEN [value |-> call.map[a]]
        ELSE extattrs[a]]

\* update_network_extattrs has found a network with a reference.
NetworkFound ==
    /\ call.op = "update_network_extattrs"
    /\ LookupFound
    /\ rs[1].body.items[1].ref # EmptyRef

\* The call has issued one PUT, with the merged attributes.
PutsMerged ==
    /\ Len(log) = 2
    /\ log[2].method = "PUT"
    /\ log[2].ref = rs[1].body.items[1].ref
    /\ log[2].data = Value("extattrs", <<>>, Merged)

\* C26: update_network_extattrs on a found network issues one PUT whose
\* extattrs are the existing attributes with every given name set to
\* {"value": given value}, names not yet on the network included.
\* (Violated: a name not on the network raises KeyError, and on Python 3
\* attributes.iteritems raises AttributeError, both before the PUT.)
C26_UpdateAddsAndUpdates == NetworkFound => PutsMerged

\* C26 witness: on Python 2, the call given x2 for a network that has x1
\* only has raised KeyError without a PUT.
C26_Witness ==
    /\ NetworkFound
    /\ call.py = "py2"
    /\ DOMAIN call.map = {"x2"}
    /\ DOMAIN rs[1].body.items[1].extattrs = {"x1"}
    /\ outcome = KeyError
    /\ Len(log) = 1

\* The part of C26 that holds: on Python 2, names already on the network
\* are updated.
C26_UpdatesExisting ==
    (/\ NetworkFound
     /\ call.py = "py2"
     /\ DOMAIN call.map \subseteq DOMAIN rs[1].body.items[1].extattrs)
    => PutsMerged

\* C27: once a request of a call has failed (a transport exception or a
\* status outside 2xx), it is the last request of the call and the call
\* ends by raising.  (Violated: a 3xx answer without 'text' passes
\* raise_for_status and the call returns None.)
C27_FailureEndsCall ==
    \A i \in DOMAIN rs :
        (\/ rs[i].fail
         \/ rs[i].status_code < 200
         \/ rs[i].status_code >= 300)
        => (/\ i = Len(log)
            /\ outcome \in Exceptions)

\* C27 witness: get_network has returned None on an answer 304 without
\* 'text'.
C27_Witness ==
    /\ call.op = "get_network"
    /\ rs = <<Response(304, Object(Absent, Absent))>>
    /\ Len(log) = 1
    /\ outcome = "return"
    /\ result = None

\* The part of C27 that holds: a failed request is the last of the call,
\* and a transport failure or a status of 400 or more ends it by raising.
C27_NoRequestAfterFailure ==
    \A i \in DOMAIN rs :
        /\ (\/ rs[i].fail
            \/ rs[i].status_code < 200
            \/ rs[i].status_code >= 300)
           => i = Len(log)
        /\ (rs[i].fail \/ rs[i].status_code >= 400)
           => outcome \in Exceptions

\* C28: create_fixed_address and update_record called with confirm=False
\* issue no request, through the handler or below it, and return None.
C28_DryRunSendsNothing ==
    (/\ call.op \in {"create_fixed_address", "update_record"}
     /\ ~call.confirm)
    => (/\ log = <<>>
        /\ session.sent = <<>>
        /\ outcome = "return"
        /\ result = None)

\* C28 witness: update_record with confirm=False has returned None with no
\* request issued.
C28_Witness ==
    /\ call.op = "update_record"
    /\ ~call.confirm
    /\ log = <<>>
    /\ outcome = "return"
    /\ result = None

\* C28 second witness: the same for create_fixed_address.
C28_CreateReached ==
    /\ call.op = "create_fixed_address"
    /\ ~call.confirm
    /\ log = <<>>
    /\ outcome = "return"
    /\ result = None

\* C29: get_lease leaves the mapping of its caller as it was, so that a
\* get_lease with that mapping and no fields sends no _return_fields.
\* (Violated: Util.get writes '_return_fields' into the mapping it is
\* given, and the later call sends it.)
C29_QueryParamsUnchanged ==
    /\ caller_params = CallerParams
    /\ (call.op = "get_lease" /\ call.fields = None)
       => "_return_fields=" \notin Range(log[1].query)

\* C29 witness: a get_lease with the mapping and no fields has sent
\* _return_fields=ends,starts, left in the mapping by an earlier call.
C29_Witness ==
    /\ call.op = "get_lease"
    /\ call.passes
    /\ call.fields = None
    /\ log[1].query = <<"address=", "n1", "&", "_return_fields=",
                        "ends", ",", "starts">>
    /\ caller_params # CallerParams

\* The part of C29 that holds: a call without a mapping sends the fields
\* of that call only, and leaves the caller's mapping alone.
C29_FreshMappingEachCall ==
    (call.op = "get_lease" /\ ~call.passes /\ call.fields = None)
    => log[1].query = <<>>

C29_FreshMappingKept ==
    [][(call'.op = "get_lease" /\ ~call'.passes)
       => caller_params' = caller_params]_vars

\* The alias list a call PUTs for the host record rec it has read.
Changed(c, rec) ==
    IF c.op = "add_host_alias"
    THEN IF rec.hasAliases THEN Append(rec.aliases, c.second)
         ELSE <<c.second>>
    ELSE remove(rec.aliases, c.second)

\* The appliance has served GET1, GET2, PUT1, PUT2 in this order.
Interleaved ==
    served = <<(<<1, "GET">>), (<<2, "GET">>), (<<1, "PUT">>), (<<2, "PUT">>)>>

\* C22: when the appliance has served GET1, GET2, PUT1, PUT2 in this order
\* and both alias lists are within what it accepts, each PUT carries
\* nothing but the whole list computed from the GET of its own client,
\* both clients read the list as it was before either PUT, both
\* operations return, and the stored list is that of PUT2: the list as if
\* the first client had not run.
C22_LastWriterWins ==
    (/\ Interleaved
     /\ Len(log[2].data.seq) <= MaxAliases
     /\ Len(peer.log[2].data.seq) <= MaxAliases)
    => (/\ log[2].data =
              Value("aliases", Changed(call, rs[1].body.items[1]), <<>>)
        /\ peer.log[2].data =
              Value("aliases", Changed(peer.call, peer.rs[1].body.items[1]),
                    <<>>)
        /\ peer.rs[1].body.items[1].aliases = rs[1].body.items[1].aliases
        /\ outcome = "return"
        /\ peer.outcome = "return"
        /\ store = peer.log[2].data.seq)

\* C22 witness: on a host without aliases the first client has added a1
\* and the second a2; both have returned and the list stored is a2 alone.
C22_Witness ==
    /\ Interleaved
    /\ call.op = "add_host_alias"
    /\ call.second = "a1"
    /\ peer.call.op = "add_host_alias"
    /\ peer.call.second = "a2"
    /\ log[2].data.seq = <<"a1">>
    /\ outcome = "return"
    /\ peer.outcome = "return"
    /\ store = <<"a2">>

\* C22 second witness: a delete by the first client is lost as well: it
\* has removed a1 from a1, a2 and the second client, adding a2, has put a1
\* back.
C22_DeleteLost ==
    /\ Interleaved
    /\ call.op = "delete_host_alias"
    /\ call.second = "a1"
    /\ peer.call.op = "add_host_alias"
    /\ log[2].data.seq = <<"a2">>
    /\ outcome = "return"
    /\ peer.outcome = "return"
    /\ store = <<"a1", "a2", "a2">>

====
